---------------------------- MODULE Spec2Model ----------------------------
(***************************************************************************)
(* A model of the foreclosure platform backend: the cron-driven data       *)
(* collection scheduler and scraper upsert, the Express middleware chain   *)
(* (protect / authorize / checkSubscription), registration, the CRUD       *)
(* handlers over the Mongoose models and the try/catch response            *)
(* discipline of the controllers.                                          *)
(*                                                                         *)
(* Handlers are modelled as methods invoked on their controller object.    *)
(* Every `await` of the source is a point where other callbacks may run,   *)
(* so an action covers the code between two awaits.  Two places take more  *)
(* in one action: the middleware chain, where what User.findById resolved  *)
(* to is carried in req.user through the gate into the handler, and the    *)
(* CRUD handlers, whose single write to the store decides both the stored  *)
(* document and the response.                                              *)
(*                                                                         *)
(* Specifications:                                                         *)
(*   SpecSched  cron callbacks, manual triggers and the runs they start    *)
(*   SpecSave   processAndSaveData called on its own                       *)
(*   SpecHttp   one request through protect, its gate and its handler      *)
(*   SpecReg    concurrent register requests                               *)
(*   SpecCrud   sequences of create/update/delete/bulk requests            *)
(*   SpecResp   the control flow of the try/catch of the handlers          *)
(*   SpecList   a client paging through a list endpoint                    *)
(*   SpecAnalysis  requests to the analysis controller                     *)
(*   SpecSoft   soft deletes and the default list queries                  *)
(*   SpecUsers  requests to the user and profile handlers                  *)
(*   SpecScore  lead operations that touch the score                       *)
(*   SpecJobs   the start script, the cron job registry and the signals    *)
(*   SpecLogin  login requests                                             *)
(*   SpecResets  forgot-password and reset-password requests               *)
(*   SpecRun    scheduled runs with the pages their scrapes open           *)
(*   SpecRunFair  SpecRun in which every awaited call settles              *)
(*   SpecActive  requests of one signed-in user that write isActive        *)
(*   SpecAdmins  user-management requests that name role or isActive       *)
(***************************************************************************)
EXTENDS Integers, Sequences, FiniteSets, TLC

(***************************************************************************)
(* Bounds of the model.                                                    *)
(***************************************************************************)
MaxRuns == 2          \* concurrent invocations of a collection run
MaxItems == 1         \* items one scrape returns
MaxManualAreas == 1   \* areas a manual trigger names in its body
MaxRegs == 2          \* register requests in flight together
MaxDocs == 1          \* documents the API creates in one collection
MaxListDocs == 3      \* documents in a collection a list endpoint pages through
MaxAnalyses == 1      \* analyses the API creates
MaxJobs == 8          \* cron jobs the process schedules in its lifetime
MaxLogins == 3        \* login requests made
MaxTokens == 2        \* reset tokens forgotPassword issues
MaxResets == 2        \* resetPassword requests made
MaxTime == 3          \* ticks of the clock, five minutes each
MaxFires == 2         \* times the daily-foreclosure-scrape callback fires

VARIABLES
  isRunning,   \* DataCollectionScheduler.isRunning, per scheduler instance
  run,         \* the invocations of runForeclosure/ManualDataCollection
  props,       \* the Property collection
  lastTrig,    \* the status of the last triggerDataCollection response
  user,        \* the User document the bearer token names
  req,         \* the HTTP request going through the middleware chain
  users,       \* the User collection, as register sees it
  regs,        \* the register requests
  leads,       \* the Lead collection
  res,         \* the status of the last response of a CRUD handler
  call,        \* one invocation of a controller handler, statement by statement
  list,        \* a collection and the pages a client has fetched of it
  analyses,    \* the Analysis collection
  areqs,       \* the requests to the analysis controller in flight
  listing,     \* the last response of getProperties / getLeads
  jobs,        \* DataCollectionScheduler.jobs, the Map from name to cron job
  cronJobs,    \* the cron jobs node-cron holds live (scheduled, not destroyed)
  created,     \* how many cron jobs cron.schedule has made so far
  browser,     \* ForeclosureScraper.browser: none, open or closed
  proc,        \* scripts/start.js: loaded, initialized, started, failed, exited
  login,       \* the login requests in flight
  resets,      \* the clock and the forgot / reset password requests in flight
  scraper      \* the pages the browser has open, the times the callback fired

schedVars == <<isRunning, run, props, lastTrig>>
httpVars == <<user, req>>
regVars == <<users, regs>>
crudVars == <<leads, res>>
analysisVars == <<analyses, areqs>>
jobVars == <<jobs, cronJobs, created, browser, proc>>
finalVars == <<resets, scraper>>
laterVars == <<list, analysisVars, listing, jobVars, login, finalVars>>
nonSched == <<httpVars, regVars, crudVars, call, laterVars>>
nonHttp == <<schedVars, regVars, crudVars, call, laterVars>>
nonReg == <<schedVars, httpVars, crudVars, call, laterVars>>
nonCrud == <<isRunning, run, lastTrig, httpVars, regs, call, laterVars>>
nonCall == <<schedVars, httpVars, regVars, crudVars, laterVars>>
earlierVars == <<schedVars, httpVars, regVars, crudVars, call>>
nonList == <<earlierVars, analysisVars, listing, jobVars, login, finalVars>>
nonAnalysis == <<earlierVars, list, listing, jobVars, login, finalVars>>
nonListing == <<earlierVars, list, analysisVars, jobVars, login, finalVars>>
nonJobs == <<earlierVars, list, analysisVars, listing, login, finalVars>>
nonLogin == <<schedVars, httpVars, regs, crudVars, call, list, analysisVars,
              listing, jobVars, finalVars>>
nonResets == <<schedVars, httpVars, regs, crudVars, call, list, analysisVars,
               listing, jobVars, login, scraper>>
nonRun == <<props, lastTrig, httpVars, regVars, crudVars, call, list,
            analysisVars, listing, jobVars, login, resets>>
vars == <<earlierVars, laterVars>>

(***************************************************************************)
(* The parts of the state a specification does not exercise stay as the    *)
(* seed script and the constructors leave them.                            *)
(***************************************************************************)
Roles == {"Admin", "Manager", "Agent", "Investor", "Viewer"}
Plans == {"Free", "Basic", "Professional", "Enterprise"}

Null == [isNull |-> TRUE]

UserDoc(role, plan, subActive, isActive) ==
  [isNull |-> FALSE, role |-> role, plan |-> plan,
   subActive |-> subActive, isActive |-> isActive]

\* the user the seed script creates first
SeedAdmin == UserDoc("Admin", "Enterprise", TRUE, TRUE)

NoHeader == [scheme |-> "none", token |-> ""]

IdleReq ==
  [pc |-> "idle", route |-> "", header |-> NoHeader, status |-> 0,
   message |-> "", nexts |-> 0, sends |-> 0, ran |-> FALSE, wrote |-> ""]

HttpAtRest ==
  /\ user = SeedAdmin
  /\ req = IdleReq

\* An email string: its address in lower case without blanks around it,
\* whether the string as sent has upper case letters, and whether it has
\* blanks around it.
Email(addr, upper, padded) == [addr |-> addr, upper |-> upper, padded |-> padded]

RegIds == 1..MaxRegs

IdleReg ==
  [pc |-> "idle", email |-> Email("", FALSE, FALSE), existed |-> FALSE,
   status |-> 0, message |-> "", created |-> 0]

\* a User document as User.create stores it: role and isActive take the
\* schema defaults
\* bcrypt.hash of a password, as the pre('save') hook of the user stores it
Hash(password) == <<"bcrypt", password>>

StoredUser(email) ==
  [email |-> email, loginCount |-> 0, lastLogin |-> 0,
   password |-> Hash("password123"), passwordResetToken |-> 0,
   passwordResetExpires |-> 0, role |-> "Investor", isActive |-> TRUE,
   plan |-> "Free", apiEnabled |-> FALSE, hasApiKey |-> FALSE]

SeedUsers ==
  <<[StoredUser(Email("admin@reai.com", FALSE, FALSE)) EXCEPT
       !.role = "Admin", !.plan = "Enterprise",
       !.password = Hash("admin123")]>>

RegAtRest ==
  /\ users = SeedUsers
  /\ regs = [i \in RegIds |-> IdleReg]

CrudAtRest ==
  /\ leads = <<>>
  /\ res = 0

NoCall ==
  [name |-> "", pc |-> 0, at |-> "idle", sent |-> <<>>, threw |-> FALSE,
   escaped |-> FALSE, branch |-> 0]

CallAtRest == call = NoCall

NoList ==
  [handler |-> "", coll |-> <<>>, limit |-> 20, sortOrder |-> "desc",
   served |-> <<>>]

ListAtRest == list = NoList

AReqIds == {1, 2}

\* req.user of a request: role and _id
ReqUser(role, id) == [role |-> role, id |-> id]

NoBody ==
  [value |-> "", user |-> 0, analysisId |-> FALSE, property |-> 0,
   repairFound |-> FALSE, status |-> ""]

IdleAReq ==
  [pc |-> "idle", handler |-> "", reqUser |-> ReqUser("", 0), id |-> 0,
   body |-> NoBody, status |-> 0, data |-> {}]

AnalysisAtRest ==
  /\ analyses = <<>>
  /\ areqs = [r \in AReqIds |-> IdleAReq]

NoListing == [handler |-> "", data |-> {}]

\* new DataCollectionScheduler(): an empty Map of jobs, no browser launched
NoJobs == <<>>
JobsAtRest ==
  /\ jobs = NoJobs
  /\ cronJobs = {}
  /\ created = 0
  /\ browser = "none"
  /\ proc = "loaded"

\* no login request made yet; begun counts the requests and is the clock
\* new Date() reads
LoginIds == {1, 2}
IdleLogin ==
  [pc |-> "idle", email |-> Email("", FALSE, FALSE), hasPassword |-> FALSE,
   password |-> "", user |-> 0, loginCount |-> 0, status |-> 0,
   token |-> FALSE]
NoLogin == [begun |-> 0, reqs |-> [r \in LoginIds |-> IdleLogin]]

\* no forgot / reset password request made yet, the clock at its start;
\* a reset token is the number of the forgotPassword save that drew it
ResetIds == {1, 2}
IdleReset ==
  [pc |-> "idle", user |-> 0, op |-> "", token |-> 0, password |-> "",
   at |-> 0, status |-> 0]
NoResets ==
  [now |-> 0, issued |-> 0, begun |-> 0, reqs |-> [r \in ResetIds |-> IdleReset]]
\* a browser with no page open, the callback never fired
NoPages == [pages |-> 0, fires |-> 0]
FinalAtRest ==
  /\ resets = NoResets
  /\ scraper = NoPages

LaterAtRest ==
  /\ FinalAtRest
  /\ ListAtRest
  /\ AnalysisAtRest
  /\ listing = NoListing
  /\ JobsAtRest
  /\ login = NoLogin

(***************************************************************************)
(* Sequences helpers.                                                      *)
(***************************************************************************)
Range(s) == {s[i] : i \in DOMAIN s}

SeqsUpTo(S, n) == UNION {[1..k -> S] : k \in 0..n}

(***************************************************************************)
(* The two scheduler instances of the program: scripts/start.js builds one *)
(* and starts its cron jobs; AutomationController builds its own.          *)
(***************************************************************************)
Scheds == {"cron", "api"}

RunIds == 1..MaxRuns

\* runForeclosureDataCollection: targetAreas
TargetAreas == <<"Los Angeles, CA", "Miami-Dade, FL", "Harris, TX",
                 "Maricopa, AZ", "Cook, IL">>

\* runManualDataCollection: the areas used when the caller gives none
DefaultManualAreas == <<"Los Angeles, CA", "Miami-Dade, FL">>

\* scrapeForeclosureListings: sites
ListingSites == <<"https://www.foreclosure.com", "https://www.realtytrac.com",
                  "https://www.auction.com">>

(***************************************************************************)
(* Scraped items.  An address string is kept as its comma separated parts, *)
(* each part as its blank separated words; <<>> is a missing address.      *)
(***************************************************************************)
NoAddress == <<>>

AddrOak == <<<<"12 Oak St">>, <<"Miami">>, <<"FL", "33101">>>>
AddrOakNoZip == <<<<"12 Oak St">>, <<"Miami">>, <<"FL">>>>
AddrElm == <<<<"9 Elm St">>, <<"Austin">>, <<"TX", "78701">>>>
AddrShort == <<<<"7 Pine Rd">>, <<"Miami FL">>>>

Item(a, s) == [address |-> a, status |-> s]

\* items of page.evaluate in scrapeSite / scrapeTaxRecords (they carry an
\* address field) and of extractForeclosureData
AddressedItems ==
  {Item(AddrOak, "Auction Scheduled"), Item(AddrOakNoZip, "Bank Owned"),
   Item(AddrElm, ""), Item(AddrShort, "SOLD"), Item(NoAddress, "")}

\* items of page.evaluate in scrapePublicRecords: documentType, date,
\* propertyAddress, caseNumber, amount -- no address field
PublicRecordItems == {Item(NoAddress, "")}

(***************************************************************************)
(* ForeclosureScraper.parseAddress, parseForeclosureStatus and             *)
(* processPropertyData.                                                    *)
(***************************************************************************)
NullAddress == [street |-> "", city |-> "", state |-> "", zipCode |-> "",
                ok |-> FALSE]

parseAddress(addressString) ==
  IF addressString = NoAddress THEN NullAddress
  ELSE IF Len(addressString) < 3 THEN NullAddress
  ELSE [street |-> addressString[1][1],
        city |-> addressString[2][1],
        state |-> addressString[3][1],
        zipCode |-> IF Len(addressString[3]) >= 2 THEN addressString[3][2]
                    ELSE "",
        ok |-> TRUE]

\* the lower-cased words parseForeclosureStatus looks for in a status
StatusIncludes(statusString, word) ==
  CASE statusString = "Auction Scheduled" -> word = "auction"
    [] statusString = "Bank Owned" -> word = "bank owned"
    [] statusString = "SOLD" -> word = "sold"
    [] OTHER -> FALSE

parseForeclosureStatus(statusString) ==
  IF statusString = "" THEN "Pre-Foreclosure"
  ELSE IF StatusIncludes(statusString, "auction") THEN "Auction"
  ELSE IF StatusIncludes(statusString, "reo")
          \/ StatusIncludes(statusString, "bank owned") THEN "REO"
  ELSE IF StatusIncludes(statusString, "sold") THEN "Sold"
  ELSE "Pre-Foreclosure"

\* the object processPropertyData returns; ok = FALSE stands for null
processPropertyData(item, source) ==
  LET address == parseAddress(item.address) IN
  [ok |-> address.ok,
   street |-> address.street, city |-> address.city,
   state |-> address.state, zipCode |-> address.zipCode,
   foreclosureStatus |-> parseForeclosureStatus(item.status),
   leadSource |-> source]

(***************************************************************************)
(* The Property collection.  "" is an absent field.                        *)
(***************************************************************************)
ForeclosureStatusEnum == {"Pre-Foreclosure", "Auction", "REO", "Sold", "Cancelled"}
PropertyLeadStatusEnum == {"New", "Contacted", "Negotiating", "Under Contract",
                           "Closed", "Lost"}
PriorityEnum == {"High", "Medium", "Low"}
PropertyTypeEnum == {"Single Family", "Condo", "Townhouse", "Multi-Family",
                     "Commercial", "Land"}

KeyOf(p) == <<p.street, p.city, p.state>>

\* propertySchema: the required paths and the enums, as document validation
\* (Property.create, save) applies them
PropertyValidates(p) ==
  /\ p.street # "" /\ p.city # "" /\ p.state # "" /\ p.zipCode # ""
  /\ p.county # ""
  /\ p.propertyType \in PropertyTypeEnum
  /\ p.foreclosureStatus \in ForeclosureStatusEnum
  /\ p.leadSource # ""
  /\ p.leadStatus \in PropertyLeadStatusEnum
  /\ p.leadPriority \in PriorityEnum

\* the document Property.create builds from what processPropertyData
\* returned: the schema defaults fill leadInfo.status, leadInfo.priority
\* and isActive, nothing fills address.county or propertyType
ScrapedDocument(d) ==
  [street |-> d.street, city |-> d.city, state |-> d.state,
   zipCode |-> d.zipCode, county |-> "", propertyType |-> "",
   foreclosureStatus |-> d.foreclosureStatus,
   leadSource |-> d.leadSource, leadStatus |-> "New",
   leadPriority |-> "Medium", isActive |-> TRUE]

\* Property.findOne({street, city, state}): the first match, 0 when none
FindOneByKey(store, k) ==
  IF \E i \in DOMAIN store : KeyOf(store[i]) = k
  THEN CHOOSE i \in DOMAIN store :
         /\ KeyOf(store[i]) = k
         /\ \A j \in DOMAIN store : KeyOf(store[j]) = k => i <= j
  ELSE 0

\* Property.findByIdAndUpdate(id, property) of processAndSaveData: $set of
\* address, foreclosureStatus, foreclosureDetails, leadInfo, dataQuality;
\* a nested object that is set replaces the stored one, no validators run
ScrapedUpdate(p, d) ==
  [p EXCEPT !.street = d.street, !.city = d.city, !.state = d.state,
            !.zipCode = d.zipCode, !.county = "",
            !.foreclosureStatus = d.foreclosureStatus,
            !.leadSource = d.leadSource,
            !.leadStatus = "", !.leadPriority = ""]


(***************************************************************************)
(* Collection runs.  A run is at one step at a time: the step it awaits.   *)
(***************************************************************************)
NoStep == [op |-> "none", at |-> 0]

Step(op, at) == [op |-> op, at |-> at]

IdleRun ==
  [kind |-> "idle", sched |-> "cron", areas |-> <<>>, ai |-> 0, si |-> 0,
   pc |-> "idle", cur |-> NoStep, pending |-> {},
   listings |-> <<>>, items |-> <<>>, source |-> "", sv |-> "find",
   existing |-> 0, out |-> 0]

ScrapeOps == {"countyScrape", "publicScrape", "taxScrape", "siteScrape"}
SaveOps == {"countySave", "publicSave", "taxSave", "listSave", "directSave"}

\* the awaited step has settled and the next one is called and awaited
Begin(rec, op, at) ==
  [rec EXCEPT !.pc = op, !.cur = Step(op, at),
              !.pending = (rec.pending \ {rec.cur}) \cup {Step(op, at)}]

\* await this.scraper.processAndSaveData(rawData, source)
BeginSave(rec, op, at, rawData, source) ==
  [Begin(rec, op, at) EXCEPT !.items = rawData, !.source = source,
                             !.sv = "find", !.existing = 0, !.out = 0]

Finished(rec) == [rec EXCEPT !.pc = "finished", !.pending = {}]

\* scrapeForeclosureListings: the loop over sites, then back in
\* runForeclosureDataCollection the save of what the sites gave
BeginSite(rec, si) ==
  IF si <= Len(ListingSites)
  THEN [Begin(rec, "siteScrape", si) EXCEPT !.si = si]
  ELSE BeginSave(rec, "listSave", 0, rec.listings, "Foreclosure Listings")

\* the for loop over the areas: the next area, or what follows the loop
BeginArea(rec, ai) ==
  IF ai <= Len(rec.areas)
  THEN [Begin(rec, "countyScrape", ai) EXCEPT !.ai = ai]
  ELSE IF rec.kind = "scheduled"
       THEN BeginSite([rec EXCEPT !.ai = ai, !.listings = <<>>], 1)
       ELSE Finished(rec)

\* the tax records collected before the public records
StageAfterSwapped(kind, op) ==
  CASE op = "countyScrape" -> "countySave"
    [] op = "countySave" -> IF kind = "scheduled" THEN "taxScrape"
                            ELSE "nextArea"
    [] op = "taxScrape" -> "taxSave"
    [] op = "taxSave" -> "publicScrape"
    [] op = "publicScrape" -> "publicSave"
    [] op = "publicSave" -> "nextArea"
    [] OTHER -> "none"

\* the statement that follows a step inside the try block of one area
StageAfter(kind, op) ==
  CASE op = "countyScrape" -> "countySave"
    [] op = "countySave" -> IF kind = "scheduled" THEN "publicScrape"
                            ELSE "nextArea"
    [] op = "publicScrape" -> "publicSave"
    [] op = "publicSave" -> "taxScrape"
    [] op = "taxScrape" -> "taxSave"
    [] op = "taxSave" -> "nextArea"
    [] OTHER -> "none"

SourceOf(kind, op) ==
  CASE op = "countySave" -> IF kind = "scheduled" THEN "County Records"
                            ELSE "Manual Collection"
    [] op = "publicSave" -> "Public Records"
    [] op = "taxSave" -> "Tax Records"
    [] OTHER -> "Foreclosure Listings"

\* a scrape call returned rawData
AfterScrapeOk(rec, rawData) ==
  IF rec.pc = "siteScrape"
  THEN BeginSite([rec EXCEPT !.listings = rec.listings \o rawData], rec.si + 1)
  ELSE LET next == StageAfter(rec.kind, rec.pc) IN
       BeginSave(rec, next, rec.ai, rawData, SourceOf(rec.kind, next))

\* a throw of a scrape that ends the run
AfterScrapeThrowAborts(rec) == Finished(rec)

\* a scrape call threw: the catch of the site loop, or of the area loop
AfterScrapeThrow(rec) ==
  IF rec.pc = "siteScrape" THEN BeginSite(rec, rec.si + 1)
  ELSE BeginArea(rec, rec.ai + 1)

\* processAndSaveData returned
AfterSave(rec) ==
  IF rec.pc \in {"listSave", "directSave"} THEN Finished(rec)
  ELSE LET next == StageAfter(rec.kind, rec.pc) IN
       IF next = "nextArea" THEN BeginArea(rec, rec.ai + 1)
       ELSE Begin(rec, next, rec.ai)

\* what a scrape call can return.  extractForeclosureData is called by
\* scrapeCountyRecords and defined nowhere in the sources at hand; it is
\* taken to return items that carry an address, or to throw.
SchedItems == {Item(AddrOak, "Auction Scheduled")}

extractForeclosureData == SeqsUpTo(SchedItems, MaxItems)

RawDataOf(op) ==
  CASE op = "countyScrape" -> extractForeclosureData
    [] op = "publicScrape" -> SeqsUpTo(PublicRecordItems, MaxItems)
    [] OTHER -> SeqsUpTo(SchedItems, MaxItems)

\* a run that returns without its finally block
SettleKeepsFlag(r, rec) ==
  /\ run' = [run EXCEPT ![r] = IF rec.pc = "finished" THEN IdleRun ELSE rec]
  /\ isRunning' = isRunning

\* the finally block of runForeclosureDataCollection and the return of the
\* run: the slot is free again
Settle(r, rec) ==
  /\ run' = [run EXCEPT ![r] = IF rec.pc = "finished" THEN IdleRun ELSE rec]
  /\ isRunning' = IF rec.pc = "finished" /\ rec.kind = "scheduled"
                  THEN [isRunning EXCEPT ![rec.sched] = FALSE]
                  ELSE isRunning

Active(rec) == rec.kind \in {"scheduled", "manual"}

\* an invocation takes the first free slot: which slot holds it is of no
\* consequence to the program
FreeSlot(r) ==
  /\ run[r].kind = "idle"
  /\ \A q \in RunIds : q < r => run[q].kind # "idle"

\* a run that does not look at the flag
SkipsNever(s) == FALSE

\* runForeclosureDataCollection: if (this.isRunning) return
Skips(s) == isRunning[s]

(***************************************************************************)
(* The daily-foreclosure-scrape callback of the scheduler that start.js    *)
(* started: runForeclosureDataCollection up to its first await.            *)
(***************************************************************************)
CronFire(r) ==
  /\ FreeSlot(r)
  /\ IF Skips("cron")
     THEN /\ run' = [run EXCEPT ![r] = [IdleRun EXCEPT !.kind = "skipped",
                                                        !.pc = "skipped"]]
          /\ UNCHANGED isRunning
     ELSE /\ isRunning' = [isRunning EXCEPT !["cron"] = TRUE]
          /\ run' = [run EXCEPT ![r] =
               BeginArea([IdleRun EXCEPT !.kind = "scheduled",
                                         !.areas = TargetAreas], 1)]
  /\ UNCHANGED <<props, lastTrig>>
  /\ UNCHANGED nonSched

\* the skipped call has returned
ReturnSkipped(r) ==
  /\ run[r].kind = "skipped"
  /\ run' = [run EXCEPT ![r] = IdleRun]
  /\ UNCHANGED <<isRunning, props, lastTrig>>
  /\ UNCHANGED nonSched

(***************************************************************************)
(* AutomationController.triggerDataCollection with                         *)
(* runManualDataCollection up to its first await.                          *)
(***************************************************************************)
ManualAreas == SeqsUpTo({"Cook, IL"}, MaxManualAreas)

TriggerDataCollection(r, areas) ==
  /\ FreeSlot(r)
  /\ IF isRunning["api"]
     THEN /\ lastTrig' = 400
          /\ UNCHANGED run
     ELSE /\ lastTrig' = 200
          /\ run' = [run EXCEPT ![r] =
               BeginArea([IdleRun EXCEPT !.kind = "manual", !.sched = "api",
                  !.areas = IF areas = <<>> THEN DefaultManualAreas
                            ELSE areas], 1)]
  /\ UNCHANGED <<isRunning, props>>
  /\ UNCHANGED nonSched

(***************************************************************************)
(* A scrape call of a run settles.                                         *)
(***************************************************************************)
ScrapeReturns(r, rawData) ==
  /\ run[r].pc \in ScrapeOps
  /\ rawData \in RawDataOf(run[r].pc)
  /\ Settle(r, AfterScrapeOk(run[r], rawData))
  /\ UNCHANGED <<props, lastTrig>>
  /\ UNCHANGED nonSched

ScrapeThrows(r) ==
  /\ run[r].pc \in ScrapeOps
  /\ Settle(r, AfterScrapeThrow(run[r]))
  /\ UNCHANGED <<props, lastTrig>>
  /\ UNCHANGED nonSched

(***************************************************************************)
(* processAndSaveData, one item of rawData after the other.                *)
(***************************************************************************)
CountKey(store, k) == Cardinality({i \in DOMAIN store : KeyOf(store[i]) = k})

\* processPropertyData and the await of Property.findOne
SaveFind(r) ==
  /\ run[r].pc \in SaveOps
  /\ run[r].items # <<>>
  /\ run[r].sv = "find"
  /\ LET d == processPropertyData(Head(run[r].items), run[r].source) IN
     IF ~d.ok
     THEN run' = [run EXCEPT ![r].items = Tail(@)]
     ELSE run' = [run EXCEPT ![r].sv = "write",
                             ![r].existing = FindOneByKey(props, KeyOf(d))]
  /\ UNCHANGED <<isRunning, props, lastTrig>>
  /\ UNCHANGED nonSched

\* the await of Property.create or of Property.findByIdAndUpdate; a
\* rejected create is caught by the catch of the item
SaveWrite(r) ==
  /\ run[r].pc \in SaveOps
  /\ run[r].items # <<>>
  /\ run[r].sv = "write"
  /\ LET d == processPropertyData(Head(run[r].items), run[r].source)
         e == run[r].existing
         doc == ScrapedDocument(d)
         creates == e = 0 /\ PropertyValidates(doc)
     IN
     /\ props' = IF e = 0
                 THEN IF creates THEN Append(props, doc) ELSE props
                 ELSE [props EXCEPT ![e] = ScrapedUpdate(@, d)]
     /\ run' = [run EXCEPT ![r].items = Tail(@), ![r].sv = "find",
                           ![r].existing = 0,
                           ![r].out = IF creates THEN @ + 1 ELSE @]
  /\ UNCHANGED <<isRunning, lastTrig>>
  /\ UNCHANGED nonSched

\* return processedProperties
SaveDone(r) ==
  /\ run[r].pc \in SaveOps
  /\ run[r].items = <<>>
  /\ Settle(r, AfterSave(run[r]))
  /\ UNCHANGED <<props, lastTrig>>
  /\ UNCHANGED nonSched

(***************************************************************************)
(* The scheduler with its runs.                                            *)
(***************************************************************************)
\* a property as createProperty stores it from a complete request body
StoredProperty(street, city, state, zip, county) ==
  [street |-> street, city |-> city, state |-> state, zipCode |-> zip,
   county |-> county, propertyType |-> "Single Family",
   foreclosureStatus |-> "Pre-Foreclosure", leadSource |-> "Website",
   leadStatus |-> "Contacted", leadPriority |-> "High", isActive |-> TRUE]

OakProperty == StoredProperty("12 Oak St", "Miami", "FL", "33101", "Miami-Dade")
ElmProperty == StoredProperty("9 Elm St", "Austin", "TX", "78701", "Travis")

SchedAtRest ==
  /\ isRunning = [s \in Scheds |-> FALSE]
  /\ run = [r \in RunIds |-> IdleRun]
  /\ props = <<>>
  /\ lastTrig = 0

EarlierAtRest ==
  /\ SchedAtRest
  /\ HttpAtRest
  /\ RegAtRest
  /\ CrudAtRest
  /\ CallAtRest

SchedInit ==
  /\ SchedAtRest
  /\ HttpAtRest
  /\ RegAtRest
  /\ CrudAtRest
  /\ CallAtRest
  /\ LaterAtRest

SchedNext ==
  \/ \E r \in RunIds : CronFire(r)
  \/ \E r \in RunIds : ReturnSkipped(r)
  \/ \E r \in RunIds : \E areas \in ManualAreas : TriggerDataCollection(r, areas)
  \/ \E r \in RunIds : \E rawData \in SeqsUpTo(SchedItems \cup PublicRecordItems, MaxItems) :
       ScrapeReturns(r, rawData)
  \/ \E r \in RunIds : ScrapeThrows(r)
  \/ \E r \in RunIds : SaveFind(r)
  \/ \E r \in RunIds : SaveWrite(r)
  \/ \E r \in RunIds : SaveDone(r)

SpecSched == SchedInit /\ [][SchedNext]_vars

(***************************************************************************)
(* processAndSaveData called on its own, one call at a time.               *)
(***************************************************************************)
SaveSources == {"County Records", "Foreclosure Listings"}

DirectCall(rawData, source) ==
  /\ \A q \in RunIds : run[q].kind = "idle"
  /\ run' = [run EXCEPT ![1] =
       BeginSave([IdleRun EXCEPT !.kind = "direct"], "directSave", 0,
                 rawData, source)]
  /\ UNCHANGED <<isRunning, props, lastTrig>>
  /\ UNCHANGED nonSched

UniqueKeys(store) ==
  \A i, j \in DOMAIN store : KeyOf(store[i]) = KeyOf(store[j]) => i = j

SaveInit ==
  /\ isRunning = [s \in Scheds |-> FALSE]
  /\ run = [r \in RunIds |-> IdleRun]
  /\ props \in {<<>>, <<OakProperty>>, <<ElmProperty>>,
                <<OakProperty, ElmProperty>>}
  /\ lastTrig = 0
  /\ HttpAtRest
  /\ RegAtRest
  /\ CrudAtRest
  /\ CallAtRest
  /\ LaterAtRest

SaveNext ==
  \/ \E rawData \in SeqsUpTo(AddressedItems, MaxItems) :
       \E source \in SaveSources : DirectCall(rawData, source)
  \/ \E r \in RunIds : SaveFind(r)
  \/ \E r \in RunIds : SaveWrite(r)
  \/ \E r \in RunIds : SaveDone(r)

SpecSave == SaveInit /\ [][SaveNext]_vars

(***************************************************************************)
(* The Express middleware chain.  One request at a time is followed from   *)
(* its arrival through protect, the gate of its route and into its         *)
(* handler; the User document its token names can be changed by an         *)
(* administrator at any moment in between.                                 *)
(***************************************************************************)
NoGate == [kind |-> "none", roles |-> {}, plan |-> ""]
authorizeGate(roles) == [kind |-> "authorize", roles |-> roles, plan |-> ""]
checkSubscriptionGate(plan) ==
  [kind |-> "checkSubscription", roles |-> {}, plan |-> plan]

Route(name, gate, writes) == [name |-> name, gate |-> gate, writes |-> writes]

PropertyRoutes ==
  {Route("GET /api/properties", NoGate, ""),
   Route("POST /api/properties", checkSubscriptionGate("Professional"),
         "Property"),
   Route("PUT /api/properties/:id", NoGate, "Property"),
   Route("DELETE /api/properties/:id", authorizeGate({"Admin", "Manager"}),
         "Property"),
   Route("POST /api/properties/:id/enrich", checkSubscriptionGate("Basic"),
         "Property"),
   Route("PATCH /api/properties/bulk", authorizeGate({"Admin", "Manager"}),
         "Property")}

AutomationRoutes ==
  {Route("POST /api/automation/workflows",
         checkSubscriptionGate("Professional"), ""),
   Route("POST /api/automation/workflows/execute",
         checkSubscriptionGate("Professional"), ""),
   Route("POST /api/automation/data-collection", authorizeGate({"Admin"}),
         ""),
   Route("POST /api/automation/notifications/email",
         checkSubscriptionGate("Basic"), ""),
   Route("POST /api/automation/notifications/sms",
         checkSubscriptionGate("Basic"), "")}

LeadRoutes ==
  {Route("PUT /api/leads/:id", NoGate, "Lead"),
   Route("DELETE /api/leads/:id", authorizeGate({"Admin", "Manager"}),
         "Lead"),
   Route("PATCH /api/leads/bulk", authorizeGate({"Admin", "Manager"}),
         "Lead")}

UserRoutes ==
  {Route("GET /api/users", authorizeGate({"Admin"}), ""),
   Route("GET /api/users/analytics", authorizeGate({"Admin"}), ""),
   Route("GET /api/users/export", authorizeGate({"Admin"}), ""),
   Route("DELETE /api/users/:id", authorizeGate({"Admin"}), "User"),
   Route("PATCH /api/users/:id/subscription", authorizeGate({"Admin"}),
         "User"),
   Route("PATCH /api/users/bulk", authorizeGate({"Admin"}), "User")}

AnalysisRoutes ==
  {Route("POST /api/analysis", checkSubscriptionGate("Basic"), "Analysis"),
   Route("POST /api/analysis/calculate/flip", checkSubscriptionGate("Basic"),
         ""),
   Route("POST /api/analysis/calculate/rental",
         checkSubscriptionGate("Basic"), ""),
   Route("POST /api/analysis/calculate/wholesale",
         checkSubscriptionGate("Basic"), "")}

ReportRoutes ==
  {Route("GET /api/reports/platform", checkSubscriptionGate("Basic"), ""),
   Route("GET /api/reports/properties", checkSubscriptionGate("Basic"), ""),
   Route("GET /api/reports/leads", checkSubscriptionGate("Basic"), "")}

Routes ==
  PropertyRoutes \cup AutomationRoutes \cup LeadRoutes \cup UserRoutes
    \cup AnalysisRoutes \cup ReportRoutes

\* the Authorization header: its scheme and the token after the blank;
\* token "" is a missing token, "u1" a token signed for the stored user,
\* "ghost" a token signed for an id no document has, "bad" anything else
Header(scheme, token) == [scheme |-> scheme, token |-> token]

Headers ==
  {NoHeader, Header("Basic", "u1"), Header("Bearer", ""),
   Header("Bearer", "bad"), Header("Bearer", "u1"), Header("Bearer", "ghost")}

\* jwt.verify: returns the payload of a token this server signed, throws
\* on every other
Verifies(token) == token \in {"u1", "ghost"}

findById(store, id) == IF id = "u1" THEN store ELSE Null

\* Array.prototype.indexOf over a sequence, counting from 0; -1 if absent
indexOf(seq, x) ==
  IF \E i \in DOMAIN seq : seq[i] = x
    THEN (CHOOSE i \in DOMAIN seq : seq[i] = x /\ \A j \in 1..(i - 1) : seq[j] # x) - 1
    ELSE -1

Resp(status, message) == [status |-> status, message |-> message]

\* What one middleware call did: the req.user it left, how many times it
\* called next() and which statuses it sent.
Outcome(reqUser, nexts, sent) == [user |-> reqUser, nexts |-> nexts, sent |-> sent]

\* protect, without the account check
protectAnyAccount(header, store, dbOk) ==
  LET bearer == header.scheme = "Bearer"
      token == IF bearer THEN header.token ELSE ""
      tail == IF token = ""
                THEN <<Resp(401, "Not authorized, no token")>> ELSE <<>>
  IN IF bearer
       THEN IF ~Verifies(token) \/ ~dbOk
              THEN Outcome(Null, 0,
                           <<Resp(401, "Not authorized, token failed")>>)
              ELSE LET reqUser == findById(store, token)
                   IN IF reqUser.isNull
                        THEN Outcome(reqUser, 0,
                          <<Resp(401, "Not authorized, user not found")>>)
                        ELSE Outcome(reqUser, 1, tail)
       ELSE Outcome(Null, 0, tail)

\* protect: `token` stays undefined unless the header starts with Bearer;
\* inside the try every failure returns after its 401, and the catch
\* returns after its own; the trailing `if (!token)` is reached when the
\* header did not start with Bearer or after next() has been called
protect(header, store, dbOk) ==
  LET bearer == header.scheme = "Bearer"
      token == IF bearer THEN header.token ELSE ""
      tail == IF token = ""
                THEN <<Resp(401, "Not authorized, no token")>> ELSE <<>>
  IN IF bearer
       THEN IF ~Verifies(token) \/ ~dbOk
              THEN Outcome(Null, 0,
                           <<Resp(401, "Not authorized, token failed")>>)
              ELSE LET reqUser == findById(store, token)
                   IN IF reqUser.isNull
                        THEN Outcome(reqUser, 0,
                          <<Resp(401, "Not authorized, user not found")>>)
                        ELSE IF ~reqUser.isActive
                               THEN Outcome(reqUser, 0,
                                 <<Resp(401, "Not authorized, account deactivated")>>)
                               ELSE Outcome(reqUser, 1, tail)
       ELSE Outcome(Null, 0, tail)

\* authorize, letting every authenticated user through
authorizeAnyRole(roles, reqUser) ==
  IF reqUser.isNull
    THEN Outcome(reqUser, 0, <<Resp(401, "Not authorized")>>)
    ELSE Outcome(reqUser, 1, <<>>)

authorize(roles, reqUser) ==
  IF reqUser.isNull
    THEN Outcome(reqUser, 0, <<Resp(401, "Not authorized")>>)
    ELSE IF reqUser.role \notin roles
           THEN Outcome(reqUser, 0,
                  <<Resp(403, "User role is not authorized to access this route")>>)
           ELSE Outcome(reqUser, 1, <<>>)

planHierarchy == <<"Free", "Basic", "Professional", "Enterprise">>

\* `This feature requires ${requiredPlan} plan or higher`
RequiresPlan(requiredPlan) ==
  CASE requiredPlan = "Basic" -> "This feature requires Basic plan or higher"
    [] requiredPlan = "Professional" ->
         "This feature requires Professional plan or higher"
    [] requiredPlan = "Enterprise" ->
         "This feature requires Enterprise plan or higher"
    [] OTHER -> "This feature requires Free plan or higher"

\* checkSubscription, without the subscription.isActive check
checkSubscriptionAnyState(requiredPlan, reqUser) ==
  IF reqUser.isNull
    THEN Outcome(reqUser, 0, <<Resp(401, "Not authorized")>>)
    ELSE IF indexOf(planHierarchy, reqUser.plan)
              < indexOf(planHierarchy, requiredPlan)
           THEN Outcome(reqUser, 0, <<Resp(403, RequiresPlan(requiredPlan))>>)
           ELSE Outcome(reqUser, 1, <<>>)

checkSubscription(requiredPlan, reqUser) ==
  IF reqUser.isNull
    THEN Outcome(reqUser, 0, <<Resp(401, "Not authorized")>>)
    ELSE IF indexOf(planHierarchy, reqUser.plan)
              < indexOf(planHierarchy, requiredPlan)
           THEN Outcome(reqUser, 0, <<Resp(403, RequiresPlan(requiredPlan))>>)
           ELSE IF ~reqUser.subActive
                  THEN Outcome(reqUser, 0,
                         <<Resp(403, "Subscription is not active")>>)
                  ELSE Outcome(reqUser, 1, <<>>)

\* the middleware a router puts between protect and the handler
Gate(gate, reqUser) ==
  CASE gate.kind = "authorize" -> authorize(gate.roles, reqUser)
    [] gate.kind = "checkSubscription" -> checkSubscription(gate.plan, reqUser)
    [] OTHER -> Outcome(reqUser, 1, <<>>)

RouteNamed(name) == CHOOSE rt \in Routes : rt.name = name

\* a request arrives for a route with some Authorization header
Arrive(rt, header) ==
  /\ req.pc = "idle"
  /\ req' = [IdleReq EXCEPT !.pc = "arrived", !.route = rt.name,
                            !.header = header]
  /\ UNCHANGED user
  /\ UNCHANGED nonHttp

\* protect runs, then (if it called next) the gate, then (if that called
\* next) the handler is entered; a response ends the request
Dispatch(dbOk) ==
  /\ req.pc = "arrived"
  /\ LET p == protect(req.header, user, dbOk)
         g == IF p.nexts > 0 THEN Gate(RouteNamed(req.route).gate, p.user)
                             ELSE Outcome(p.user, 0, <<>>)
         sent == p.sent \o g.sent
     IN req' = [req EXCEPT
          !.pc = IF g.nexts > 0 THEN "handler" ELSE "done",
          !.nexts = p.nexts,
          !.sends = Len(sent),
          !.status = IF sent = <<>> THEN 0 ELSE Head(sent).status,
          !.message = IF sent = <<>> THEN "" ELSE Head(sent).message,
          !.ran = g.nexts > 0]
  /\ UNCHANGED user
  /\ UNCHANGED nonHttp

\* the handler does its work on its collection and responds
HandlerResponds(status) ==
  /\ req.pc = "handler"
  /\ req' = [req EXCEPT
       !.pc = "done", !.status = status, !.message = "",
       !.sends = req.sends + 1,
       !.wrote = IF status = 200 THEN RouteNamed(req.route).writes ELSE ""]
  /\ UNCHANGED user
  /\ UNCHANGED nonHttp

\* the response has gone out; the next request can be followed
Close ==
  /\ req.pc = "done"
  /\ req' = IdleReq
  /\ UNCHANGED user
  /\ UNCHANGED nonHttp

\* another request, by an administrator, changes a field of the document:
\* role or isActive (updateUser), the subscription (updateSubscription)
AdminUpdatesUser(u) ==
  /\ \/ u = [user EXCEPT !.role = u.role]
     \/ u = [user EXCEPT !.isActive = u.isActive]
     \/ u = [user EXCEPT !.plan = u.plan, !.subActive = u.subActive]
  /\ u # user
  /\ user' = u
  /\ UNCHANGED req
  /\ UNCHANGED nonHttp

UserDocs == {UserDoc(r, p, sa, a) : r \in Roles, p \in Plans,
                                 sa \in BOOLEAN, a \in BOOLEAN}

HandlerStatuses == {200, 404, 500}

HttpInit ==
  /\ HttpAtRest
  /\ SchedAtRest
  /\ RegAtRest
  /\ CrudAtRest
  /\ CallAtRest
  /\ LaterAtRest

HttpNext ==
  \/ \E rt \in Routes : \E header \in Headers : Arrive(rt, header)
  \/ \E dbOk \in BOOLEAN : Dispatch(dbOk)
  \/ \E status \in HandlerStatuses : HandlerResponds(status)
  \/ Close
  \/ \E u \in UserDocs : AdminUpdatesUser(u)

SpecHttp == HttpInit /\ [][HttpNext]_vars

(***************************************************************************)
(* AuthController.register over the User collection.                       *)
(***************************************************************************)
\* the lowercase and trim setters of userSchema.email
lowercase(email) == [email EXCEPT !.upper = FALSE]
trim(email) == [email EXCEPT !.padded = FALSE]
CastEmail(email) == trim(lowercase(email))

\* the match validator of userSchema.email
MatchesEmail(email) == email.addr # "not-an-email"

\* the unique index on email, switched off
DuplicateKeyNever(store, email) == FALSE

\* the unique index on email refuses a second document with the value
DuplicateKey(store, email) == \E i \in DOMAIN store : store[i].email = email

\* User.findOne({ email }): the filter is cast through the schema setters
findOneByEmail(store, email) ==
  \E i \in DOMAIN store : store[i].email = CastEmail(email)

RegEmails ==
  {Email("admin@reai.com", FALSE, FALSE), Email("admin@reai.com", TRUE, FALSE),
   Email("new@x.com", FALSE, FALSE), Email("new@x.com", TRUE, TRUE),
   Email("not-an-email", FALSE, FALSE)}

\* from the entry of register to the resolution of User.findOne
RegisterFind(i, email) ==
  /\ regs[i].pc = "idle"
  /\ \A j \in RegIds : j < i => regs[j].pc # "idle"
  /\ regs' = [regs EXCEPT ![i] =
       [IdleReg EXCEPT !.pc = "found", !.email = email,
                       !.existed = findOneByEmail(users, email)]]
  /\ UNCHANGED users
  /\ UNCHANGED nonReg

\* the 400 branch
RegisterExists(i) ==
  /\ regs[i].pc = "found" /\ regs[i].existed
  /\ regs' = [regs EXCEPT ![i].pc = "done", ![i].status = 400,
       ![i].message = "User already exists with this email"]
  /\ UNCHANGED users
  /\ UNCHANGED nonReg

\* User.create: setters, validation, insert under the unique index; a
\* rejection is caught by the handler and answered with 500
RegisterCreate(i) ==
  /\ regs[i].pc = "found" /\ ~regs[i].existed
  /\ LET email == CastEmail(regs[i].email)
     IN IF MatchesEmail(email) /\ ~DuplicateKey(users, email)
          THEN /\ users' = Append(users, StoredUser(email))
               /\ regs' = [regs EXCEPT ![i].pc = "created",
                                       ![i].created = Len(users) + 1]
          ELSE /\ regs' = [regs EXCEPT ![i].pc = "done", ![i].status = 500,
                    ![i].message = "Server error during registration"]
               /\ UNCHANGED users
  /\ UNCHANGED nonReg

\* generateToken, user.updateActivity() and the 201
RegisterRespond(i) ==
  /\ regs[i].pc = "created"
  /\ users' = [users EXCEPT ![regs[i].created].loginCount = @ + 1]
  /\ regs' = [regs EXCEPT ![i].pc = "done", ![i].status = 201]
  /\ UNCHANGED nonReg

RegInit ==
  /\ RegAtRest
  /\ SchedAtRest
  /\ HttpAtRest
  /\ CrudAtRest
  /\ CallAtRest
  /\ LaterAtRest

RegNext ==
  \/ \E i \in RegIds : \E email \in RegEmails : RegisterFind(i, email)
  \/ \E i \in RegIds : RegisterExists(i)
  \/ \E i \in RegIds : RegisterCreate(i)
  \/ \E i \in RegIds : RegisterRespond(i)

SpecReg == RegInit /\ [][RegNext]_vars

(***************************************************************************)
(* The CRUD handlers of the lead, property and user controllers over the   *)
(* Lead, Property and User collections.  A document's _id is its place in  *)
(* the collection.  An update body names one path and its new value.       *)
(***************************************************************************)
LeadStatusEnum ==
  {"New", "Contacted", "Interested", "Not Interested", "Under Contract",
   "Closed", "Lost"}

DocIds == 1..MaxDocs

\* leadSchema score: each of score.factors.* has min 0 and max 25,
\* score.total has min 0 and max 100; the paths are named by their last part
MaxFactor == 25
MaxTotal == 100
FactorPaths == {"motivation", "timeline", "equity", "condition"}
NoFactors == [path \in FactorPaths |-> 0]

\* the validator of a path: its enum, or its min and max
EnumOfPath(path) ==
  CASE path = "status" -> LeadStatusEnum
    [] path = "priority" -> PriorityEnum
    [] path = "foreclosureStatus" -> ForeclosureStatusEnum
    [] path = "leadStatus" -> PropertyLeadStatusEnum
    [] path = "leadPriority" -> PriorityEnum
    [] path \in FactorPaths -> 0..MaxFactor
    [] path = "total" -> 0..MaxTotal
    [] path = "isActive" -> BOOLEAN
    [] OTHER -> Roles

\* the $set an update sends to the store
SetPath(doc, path, value) == [doc EXCEPT ![path] = value]

\* Model.updateMany(filter, update): no document validation
updateMany(coll, ids, path, value) ==
  [i \in DOMAIN coll |->
     IF i \in ids THEN SetPath(coll[i], path, value) ELSE coll[i]]

\* a body of POST /api/leads: whether it carries leadId, source, property
\* and contact.name, and what it says of status and priority ("" is absent)
LeadBody(complete, status, priority) ==
  [complete |-> complete, status |-> status, priority |-> priority,
   factors |-> NoFactors, total |-> 0]

\* the document Lead.create builds: the schema defaults fill what is absent
NewLead(body) ==
  [status |-> IF body.status = "" THEN "New" ELSE body.status,
   priority |-> IF body.priority = "" THEN "Medium" ELSE body.priority,
   isActive |-> TRUE,
   motivation |-> body.factors.motivation, timeline |-> body.factors.timeline,
   equity |-> body.factors.equity, condition |-> body.factors.condition,
   total |-> body.total]

\* leadSchema.pre('save'): score.total becomes the sum of the four factors
SumOfFactors(doc) ==
  doc.motivation + doc.timeline + doc.equity + doc.condition
preSave(doc) == [doc EXCEPT !.total = SumOfFactors(doc)]

\* leadSchema: required paths and enums; document validation runs before
\* the pre('save') hook that would generate leadId
LeadValidates(body) ==
  /\ body.complete
  /\ NewLead(body).status \in LeadStatusEnum
  /\ NewLead(body).priority \in PriorityEnum
  /\ \A path \in FactorPaths : body.factors[path] \in EnumOfPath(path)
  /\ body.total \in EnumOfPath("total")

createLead(body) ==
  /\ Len(leads) < MaxDocs
  /\ IF LeadValidates(body)
       THEN leads' = Append(leads, preSave(NewLead(body))) /\ res' = 201
       ELSE UNCHANGED leads /\ res' = 500
  /\ UNCHANGED <<props, users>>
  /\ UNCHANGED nonCrud

updateLead(id, path, value) ==
  /\ IF value \notin EnumOfPath(path)
       THEN UNCHANGED leads /\ res' = 500
       ELSE IF id \notin DOMAIN leads
              THEN UNCHANGED leads /\ res' = 404
              ELSE /\ leads' = [leads EXCEPT ![id] = SetPath(@, path, value)]
                   /\ res' = 200
  /\ UNCHANGED <<props, users>>
  /\ UNCHANGED nonCrud

\* LeadController.updateStatus with leadSchema.methods.updateStatus
updateStatus(id, status) ==
  /\ IF id \notin DOMAIN leads
       THEN UNCHANGED leads /\ res' = 404
       ELSE IF status \notin LeadStatusEnum
              THEN UNCHANGED leads /\ res' = 500
              ELSE /\ leads' = [leads EXCEPT
                                 ![id] = preSave([@ EXCEPT !.status = status])]
                   /\ res' = 200
  /\ UNCHANGED <<props, users>>
  /\ UNCHANGED nonCrud

deleteLead(id) ==
  /\ IF id \notin DOMAIN leads
       THEN UNCHANGED leads /\ res' = 404
       ELSE leads' = [leads EXCEPT ![id].isActive = FALSE] /\ res' = 200
  /\ UNCHANGED <<props, users>>
  /\ UNCHANGED nonCrud

bulkUpdateLeads(leadIds, path, value) ==
  /\ IF leadIds = {}
       THEN UNCHANGED leads /\ res' = 400
       ELSE leads' = updateMany(leads, leadIds, path, value) /\ res' = 200
  /\ UNCHANGED <<props, users>>
  /\ UNCHANGED nonCrud

\* DataProcessor.generateLead: the body it hands to Lead.create has source,
\* property, contact, details and score, and no leadId
generateLead(property) == LeadBody(FALSE, "", "")

\* Property.create, then generateLead inside the same try
createProperty(body) ==
  /\ Len(props) < MaxDocs
  /\ IF ~PropertyValidates(body)
       THEN UNCHANGED <<props, leads>> /\ res' = 500
       ELSE /\ props' = Append(props, body)
            /\ IF LeadValidates(generateLead(body))
                 THEN /\ leads' = Append(leads,
                                          preSave(NewLead(generateLead(body))))
                      /\ res' = 201
                 ELSE UNCHANGED leads /\ res' = 500
  /\ UNCHANGED users
  /\ UNCHANGED nonCrud

updateProperty(id, path, value) ==
  /\ IF value \notin EnumOfPath(path)
       THEN UNCHANGED props /\ res' = 500
       ELSE IF id \notin DOMAIN props
              THEN UNCHANGED props /\ res' = 404
              ELSE /\ props' = [props EXCEPT ![id] = SetPath(@, path, value)]
                   /\ res' = 200
  /\ UNCHANGED <<leads, users>>
  /\ UNCHANGED nonCrud

deleteProperty(id) ==
  /\ IF id \notin DOMAIN props
       THEN UNCHANGED props /\ res' = 404
       ELSE props' = [props EXCEPT ![id].isActive = FALSE] /\ res' = 200
  /\ UNCHANGED <<leads, users>>
  /\ UNCHANGED nonCrud

bulkUpdateProperties(propertyIds, path, value) ==
  /\ IF propertyIds = {}
       THEN UNCHANGED props /\ res' = 400
       ELSE props' = updateMany(props, propertyIds, path, value) /\ res' = 200
  /\ UNCHANGED <<leads, users>>
  /\ UNCHANGED nonCrud

\* the requester: its role, and whether req.params.id is its own _id
Requester(role, self) == [role |-> role, self |-> self]

\* A body of PUT /api/users/:id: whether it has an apiAccess object and
\* what that says of isEnabled, and one more key with its value.  The key
\* is a path of the schema written as a top-level key ("role",
\* "subscription": { plan }), as a dotted key ("subscription.plan"), or
\* inside an update operator ("$set": { role }).
UserBody(hasApiAccess, isEnabled, key, value) ==
  [hasApiAccess |-> hasApiAccess, isEnabled |-> isEnabled, key |-> key,
   value |-> value]

\* the path of the document the store sets for a key of the update
PathOfKey(key) ==
  CASE key \in {"role", "$set"} -> "role"
    [] key \in {"subscription", "subscription.plan"} -> "plan"
    [] key = "isActive" -> "isActive"
    [] OTHER -> ""

UserEnumOf(path) ==
  CASE path = "plan" -> Plans
    [] path = "isActive" -> BOOLEAN
    [] OTHER -> Roles

\* if (req.user.role !== 'Admin') { delete updates.role;
\*                                   delete updates.subscription; }
DeleteRoleAndSubscription(reqUser, key) ==
  IF reqUser.role # "Admin" /\ key \in {"role", "subscription"}
    THEN ""
    ELSE key

\* new ObjectId(id) succeeds: an id that is no ObjectId makes the store
\* call throw a CastError
WellFormed(id) == id > 0

\* User.findByIdAndUpdate(userId, { ...updates, updatedBy },
\*                        { new: true, runValidators: true })
UserUpdate(doc, key, value) ==
  IF PathOfKey(key) = "" THEN doc ELSE [doc EXCEPT ![PathOfKey(key)] = value]

\* `delete updates.apiAccess.apiKey` leaves the body's apiAccess object
\* in the update, and the store puts that object in the place of the
\* stored one: isEnabled as sent, no apiKey
SetApiAccess(doc, isEnabled) ==
  [doc EXCEPT !.apiEnabled = isEnabled, !.hasApiKey = FALSE]

updateUser(id, reqUser, body) ==
  /\ IF reqUser.role # "Admin" /\ ~reqUser.self
       THEN UNCHANGED users /\ res' = 403
       ELSE IF ~body.hasApiAccess
              THEN UNCHANGED users /\ res' = 500
              ELSE LET key == DeleteRoleAndSubscription(reqUser, body.key)
                   IN IF \/ ~WellFormed(id)
                         \/ /\ PathOfKey(key) # ""
                            /\ body.value \notin UserEnumOf(PathOfKey(key))
                        THEN UNCHANGED users /\ res' = 500
                        ELSE IF id \notin DOMAIN users
                               THEN UNCHANGED users /\ res' = 404
                               ELSE /\ users' = [users EXCEPT ![id] =
                                         SetApiAccess(
                                           UserUpdate(@, key, body.value),
                                           body.isEnabled)]
                                    /\ res' = 200
  /\ UNCHANGED <<props, leads>>
  /\ UNCHANGED nonCrud

\* AuthController.updateProfile: the keys of allowedUpdates reach the store
updateProfile(id, body) ==
  /\ id \in DOMAIN users
  /\ LET key == IF body.key \in {"firstName", "lastName", "phone", "profile",
                                 "preferences"}
                  THEN body.key ELSE ""
     IN users' = [users EXCEPT ![id] = UserUpdate(@, key, body.value)]
  /\ res' = 200
  /\ UNCHANGED <<props, leads>>
  /\ UNCHANGED nonCrud

\* user.subscription.plan = plan; await user.save()
updateSubscription(id, reqUser, plan) ==
  /\ IF reqUser.role # "Admin"
       THEN UNCHANGED users /\ res' = 403
       ELSE IF ~WellFormed(id)
              THEN UNCHANGED users /\ res' = 500
              ELSE IF id \notin DOMAIN users
                     THEN UNCHANGED users /\ res' = 404
                     ELSE IF plan \notin Plans
                            THEN UNCHANGED users /\ res' = 500
                            ELSE /\ users' = [users EXCEPT ![id].plan = plan]
                                 /\ res' = 200
  /\ UNCHANGED <<props, leads>>
  /\ UNCHANGED nonCrud

\* deleteUser without the test on the requester's own id
deleteUserAnyAccount(id, reqUser) ==
  /\ IF reqUser.role # "Admin"
       THEN UNCHANGED users /\ res' = 403
       ELSE IF ~WellFormed(id)
              THEN UNCHANGED users /\ res' = 500
              ELSE IF id \notin DOMAIN users
                     THEN UNCHANGED users /\ res' = 404
                     ELSE /\ users' = [users EXCEPT ![id].isActive = FALSE]
                          /\ res' = 200
  /\ UNCHANGED <<props, leads>>
  /\ UNCHANGED nonCrud

\* UserController.generateApiKey: POST /api/users/:id/api-key
userGenerateApiKey(id, reqUser) ==
  /\ IF reqUser.role # "Admin" /\ ~reqUser.self
       THEN UNCHANGED users /\ res' = 403
       ELSE IF ~WellFormed(id)
              THEN UNCHANGED users /\ res' = 500
              ELSE IF id \notin DOMAIN users
                     THEN UNCHANGED users /\ res' = 404
                     ELSE /\ users' = [users EXCEPT ![id].apiEnabled = TRUE,
                                                    ![id].hasApiKey = TRUE]
                          /\ res' = 200
  /\ UNCHANGED <<props, leads>>
  /\ UNCHANGED nonCrud

\* AuthController.generateApiKey: POST /api/auth/api-key, for req.user._id
authGenerateApiKey(id) ==
  /\ id \in DOMAIN users
  /\ IF ~users[id].apiEnabled
       THEN UNCHANGED users /\ res' = 403
       ELSE users' = [users EXCEPT ![id].hasApiKey = TRUE] /\ res' = 200
  /\ UNCHANGED <<props, leads>>
  /\ UNCHANGED nonCrud

deleteUser(id, reqUser) ==
  /\ IF reqUser.role # "Admin"
       THEN UNCHANGED users /\ res' = 403
       ELSE IF reqUser.self
              THEN UNCHANGED users /\ res' = 400
              ELSE IF ~WellFormed(id)
                     THEN UNCHANGED users /\ res' = 500
                     ELSE IF id \notin DOMAIN users
                            THEN UNCHANGED users /\ res' = 404
                            ELSE /\ users' = [users EXCEPT ![id].isActive = FALSE]
                                 /\ res' = 200
  /\ UNCHANGED <<props, leads>>
  /\ UNCHANGED nonCrud

bulkUpdateUsers(userIds, reqUser, value) ==
  /\ IF reqUser.role # "Admin"
       THEN UNCHANGED users /\ res' = 403
       ELSE IF userIds = {}
              THEN UNCHANGED users /\ res' = 400
              ELSE /\ users' = updateMany(users, userIds, "role", value)
                   /\ res' = 200
  /\ UNCHANGED <<props, leads>>
  /\ UNCHANGED nonCrud

\* what request bodies carry
LeadPaths == {"status", "priority"}
PropertyPaths == {"foreclosureStatus", "leadStatus"}
BodyValues(path) ==
  CASE path = "status" -> {"Contacted", "Bogus"}
    [] path = "priority" -> {"Medium", "Bogus"}
    [] path = "foreclosureStatus" -> {"Pre-Foreclosure", "Bogus"}
    [] path = "leadStatus" -> {"Contacted", "Bogus"}
    [] OTHER -> {"Viewer", "Bogus"}

LeadBodies ==
  {LeadBody(c, st, "") : c \in BOOLEAN, st \in {""} \cup BodyValues("status")}

PropertyBodies ==
  {OakProperty, [OakProperty EXCEPT !.foreclosureStatus = "Bogus"],
   [OakProperty EXCEPT !.county = ""]}

Requesters == {Requester(r, sf) : r \in {"Admin", "Agent"}, sf \in BOOLEAN}

\* ids a request may name: those of stored documents and one of none
ParamIds == 1..(MaxDocs + 1)

CrudInit ==
  /\ CrudAtRest
  /\ SchedAtRest
  /\ HttpAtRest
  /\ RegAtRest
  /\ CallAtRest
  /\ LaterAtRest

CrudNext ==
  \/ \E body \in LeadBodies : createLead(body)
  \/ \E id \in ParamIds : \E path \in LeadPaths :
       \E value \in BodyValues(path) : updateLead(id, path, value)
  \/ \E id \in ParamIds : \E status \in BodyValues("status") :
       updateStatus(id, status)
  \/ \E id \in ParamIds : deleteLead(id)
  \/ \E leadIds \in SUBSET DocIds : \E path \in LeadPaths :
       \E value \in BodyValues(path) : bulkUpdateLeads(leadIds, path, value)
  \/ \E body \in PropertyBodies : createProperty(body)
  \/ \E id \in ParamIds : \E path \in PropertyPaths :
       \E value \in BodyValues(path) : updateProperty(id, path, value)
  \/ \E id \in ParamIds : deleteProperty(id)
  \/ \E propertyIds \in SUBSET DocIds : \E path \in PropertyPaths :
       \E value \in BodyValues(path) :
         bulkUpdateProperties(propertyIds, path, value)
  \/ \E id \in ParamIds : \E reqUser \in Requesters :
       \E hasApiAccess \in BOOLEAN : \E value \in BodyValues("role") :
         updateUser(id, reqUser, UserBody(hasApiAccess, FALSE, "role", value))
  \/ \E id \in ParamIds : \E reqUser \in Requesters : deleteUser(id, reqUser)
  \/ \E userIds \in SUBSET DocIds : \E reqUser \in Requesters :
       \E value \in BodyValues("role") : bulkUpdateUsers(userIds, reqUser, value)

SpecCrud == CrudInit /\ [][CrudNext]_vars

(***************************************************************************)
(* The control flow of the controller handlers.  A handler is the list of  *)
(* the statements of its try block that can leave it: an awaited store or  *)
(* service call and a statement that can throw (both may throw), an        *)
(* `if (...) return res.status(s).json(...)` branch and the closing        *)
(* res.json.  Which way a statement goes depends on the request and the    *)
(* store and is open here.                                                 *)
(***************************************************************************)
Await(what) == [op |-> "await", status |-> 0, what |-> what]
Stmt(what) == [op |-> "stmt", status |-> 0, what |-> what]
Branch(status, what) == [op |-> "branch", status |-> status, what |-> what]
Respond(status) == [op |-> "respond", status |-> status, what |-> "res.json"]

Sent(status, success) == [status |-> status, success |-> success]

HandlerNames ==
  {"createProperty", "updateProperty", "deleteProperty", "updateUser",
   "deleteUser", "updateSubscription", "login", "register",
   "changePassword", "bulkUpdateLeads", "createLead", "updateLead",
   "updateStatus"}

TryBlock(name) ==
  CASE name = "createProperty" ->
         <<Await("Property.create"), Await("dataProcessor.generateLead"),
           Respond(201)>>
    [] name = "updateProperty" ->
         <<Await("Property.findByIdAndUpdate"), Branch(404, "!property"),
           Respond(200)>>
    [] name = "deleteProperty" ->
         <<Await("Property.findByIdAndUpdate"), Branch(404, "!property"),
           Respond(200)>>
    [] name = "updateUser" ->
         <<Branch(403, "not Admin and not self"),
           Stmt("delete updates.apiAccess.apiKey"),
           Await("User.findByIdAndUpdate"), Branch(404, "!user"),
           Respond(200)>>
    [] name = "deleteUser" ->
         <<Branch(403, "not Admin"), Branch(400, "own account"),
           Await("User.findByIdAndUpdate"), Branch(404, "!user"),
           Respond(200)>>
    [] name = "updateSubscription" ->
         <<Stmt("destructure req.body"), Branch(403, "not Admin"),
           Await("User.findById"), Branch(404, "!user"), Await("user.save"),
           Respond(200)>>
    [] name = "login" ->
         <<Stmt("destructure req.body"), Await("User.findOne"),
           Branch(401, "!user"), Branch(401, "!user.isActive"),
           Await("user.comparePassword"), Branch(401, "!isMatch"),
           Stmt("this.generateToken"), Await("user.updateActivity"),
           Respond(200)>>
    [] name = "register" ->
         <<Stmt("destructure req.body"), Await("User.findOne"),
           Branch(400, "existingUser"), Await("User.create"),
           Stmt("this.generateToken"), Await("user.updateActivity"),
           Respond(201)>>
    [] name = "changePassword" ->
         <<Stmt("destructure req.body"), Await("User.findById"),
           Await("user.comparePassword"), Branch(400, "!isMatch"),
           Await("user.save"), Respond(200)>>
    [] name = "bulkUpdateLeads" ->
         <<Stmt("destructure req.body"), Branch(400, "no leadIds"),
           Await("Lead.updateMany"), Respond(200)>>
    [] name = "createLead" -> <<Await("Lead.create"), Respond(201)>>
    [] name = "updateLead" ->
         <<Await("Lead.findByIdAndUpdate"), Branch(404, "!lead"),
           Respond(200)>>
    [] name = "updateStatus" ->
         <<Stmt("destructure req.body"), Await("Lead.findById"),
           Branch(404, "!lead"), Await("lead.updateStatus"), Respond(200)>>

\* a catch block that lets the error go on
catchRethrows(c) == [c EXCEPT !.at = "done", !.escaped = TRUE]

\* catch (error) { logger.error(...); res.status(500).json({ success: false, ... }) }
catch(c) ==
  [c EXCEPT !.at = "done", !.sent = Append(@, Sent(500, FALSE))]

\* return res.status(status).json({ success: false, ... })
branchReturns(c, status) ==
  [c EXCEPT !.sent = Append(@, Sent(status, FALSE)), !.branch = status,
            !.at = "done"]

Current == TryBlock(call.name)[call.pc]

\* Express calls the handler
Enter(name) ==
  /\ call.at \in {"idle", "done"}
  /\ call' = [NoCall EXCEPT !.name = name, !.pc = 1, !.at = "try"]
  /\ UNCHANGED nonCall

\* an awaited call resolves, or rejects into the catch block
AwaitSettles(ok) ==
  /\ call.at = "try" /\ Current.op = "await"
  /\ call' = IF ok THEN [call EXCEPT !.pc = @ + 1]
                   ELSE [call EXCEPT !.at = "catch", !.threw = TRUE]
  /\ UNCHANGED nonCall

\* a statement completes, or throws into the catch block
StatementRuns(ok) ==
  /\ call.at = "try" /\ Current.op = "stmt"
  /\ call' = IF ok THEN [call EXCEPT !.pc = @ + 1]
                   ELSE [call EXCEPT !.at = "catch", !.threw = TRUE]
  /\ UNCHANGED nonCall

\* the condition of an explicit branch holds or not
BranchTested(taken) ==
  /\ call.at = "try" /\ Current.op = "branch"
  /\ call' = IF taken THEN branchReturns(call, Current.status)
                      ELSE [call EXCEPT !.pc = @ + 1]
  /\ UNCHANGED nonCall

\* the closing response of the try block
Responds ==
  /\ call.at = "try" /\ Current.op = "respond"
  /\ call' = [call EXCEPT !.at = "done",
                          !.sent = Append(@, Sent(Current.status, TRUE))]
  /\ UNCHANGED nonCall

Catches ==
  /\ call.at = "catch"
  /\ call' = catch(call)
  /\ UNCHANGED nonCall

RespInit ==
  /\ CallAtRest
  /\ SchedAtRest
  /\ HttpAtRest
  /\ RegAtRest
  /\ CrudAtRest
  /\ LaterAtRest

RespNext ==
  \/ \E name \in HandlerNames : Enter(name)
  \/ \E ok \in BOOLEAN : AwaitSettles(ok)
  \/ \E ok \in BOOLEAN : StatementRuns(ok)
  \/ \E taken \in BOOLEAN : BranchTested(taken)
  \/ Responds
  \/ Catches

SpecResp == RespInit /\ [][RespNext]_vars

(***************************************************************************)
(* The list endpoints getProperties, getLeads, getUsers and getAnalyses.   *)
(* A document's _id is its place in the collection; key is its value at    *)
(* the path the request sorts by.  The store gives no order to documents   *)
(* whose sort keys are equal: each find may return them in any order.      *)
(***************************************************************************)
ListHandlers == {"getProperties", "getLeads", "getUsers", "getAnalyses"}

ListDoc(key, isActive) == [key |-> key, isActive |-> isActive]

\* const filter = { isActive: true }, and {} in getUsers
ListFilter(handler) == [activeOnly |-> handler # "getUsers"]

\* a store that ignores the filter
MatchingAny(coll, filter) == DOMAIN coll

Matching(coll, filter) ==
  {i \in DOMAIN coll : filter.activeOnly => coll[i].isActive}

\* sort[sortBy] = sortOrder === 'desc' ? -1 : 1
SortDirection(sortOrder) == IF sortOrder = "desc" THEN -1 ELSE 1

\* the orders .sort(sort) may give to the documents ids
SortedOrders(coll, ids, direction) ==
  {s \in [1..Cardinality(ids) -> ids] :
     /\ \A i, j \in DOMAIN s : i # j => s[i] # s[j]
     /\ \A i, j \in DOMAIN s :
          i < j => direction * coll[s[i]].key <= direction * coll[s[j]].key}

\* .limit(n).skip(k) on an ordered result
SkipLimit(s, k, n) ==
  SubSeq(s, k + 1, IF k + n < Len(s) THEN k + n ELSE Len(s))

\* the results Model.find(filter).sort(sort).limit(limit * 1)
\* .skip((page - 1) * limit) may resolve to
find(coll, filter, sortOrder, page, limit) ==
  {SkipLimit(s, (page - 1) * limit, limit * 1) :
     s \in SortedOrders(coll, Matching(coll, filter), SortDirection(sortOrder))}

countDocuments(coll, filter) == Cardinality(Matching(coll, filter))

\* Math.ceil(total / limit)
ceil(total, limit) == (total + limit - 1) \div limit

\* the handler from the query to res.json, for the next page the client asks
getPage(page, data) ==
  /\ list.handler \in ListHandlers
  /\ page = Len(list.served) + 1
  /\ IF page = 1 THEN TRUE ELSE page <= list.served[1].pages
  /\ data \in find(list.coll, ListFilter(list.handler), list.sortOrder,
                   page, list.limit)
  /\ LET total == countDocuments(list.coll, ListFilter(list.handler))
     IN list' = [list EXCEPT !.served =
                   Append(@, [data |-> data, current |-> page,
                              pages |-> ceil(total, list.limit),
                              total |-> total])]
  /\ UNCHANGED nonList

SortKeys == {1, 2}
Limits == {1, 2}

ListColls ==
  UNION {[1..n -> {ListDoc(k, a) : k \in SortKeys, a \in BOOLEAN}] :
           n \in 0..MaxListDocs}

ListInit ==
  /\ \E handler \in ListHandlers : \E coll \in ListColls :
       \E limit \in Limits : \E sortOrder \in {"asc", "desc"} :
         list = [handler |-> handler, coll |-> coll, limit |-> limit,
                 sortOrder |-> sortOrder, served |-> <<>>]
  /\ AnalysisAtRest
  /\ listing = NoListing
  /\ JobsAtRest
  /\ login = NoLogin
  /\ FinalAtRest
  /\ EarlierAtRest

ListNext ==
  \E page \in 1..(MaxListDocs + 1) :
    \E data \in SeqsUpTo(1..MaxListDocs, MaxListDocs) : getPage(page, data)

SpecList == ListInit /\ [][ListNext]_vars

(***************************************************************************)
(* The analysis controller.  An analysis holds its owner (user), isActive, *)
(* a value standing for its other paths and the status of one repair.      *)
(* Requests run concurrently: each store call of a handler is one action.  *)
(***************************************************************************)
RepairStatusEnum == {"Planned", "In Progress", "Completed", "Cancelled"}

\* what Analysis.create stores: user: req.user._id, schema defaults
NewAnalysis(reqUser, body) ==
  [user |-> reqUser.id, isActive |-> TRUE, value |-> body.value,
   repair |-> "Planned"]

\* an access check that lets every requester through
AccessDeniedNever(reqUser, analysis, populated) == FALSE

\* req.user.role !== 'Admin' &&
\*   analysis.user.toString() !== req.user._id.toString()
\* When the query populated `user`, analysis.user is a document and its
\* toString() is the text of the document, which no _id equals.
AccessDenied(reqUser, analysis, populated) ==
  /\ reqUser.role # "Admin"
  /\ populated \/ analysis.user # reqUser.id

\* const filter = { isActive: true }; filter.user = req.user._id
AnalysisFilter(reqUser) ==
  [activeOnly |-> TRUE,
   user |-> IF reqUser.role # "Admin" THEN reqUser.id ELSE 0]

MatchingAnalyses(coll, filter) ==
  {i \in Matching(coll, filter) : filter.user # 0 => coll[i].user = filter.user}

AReq(handler, reqUser, id, body) ==
  [IdleAReq EXCEPT !.handler = handler, !.reqUser = reqUser, !.id = id,
                   !.body = body]

\* res.status(status).json(...) with the analyses written into it
ASend(request, status, data) ==
  [request EXCEPT !.pc = "done", !.status = status, !.data = data,
                  !.body = NoBody]

\* getAnalyses up to Analysis.find(filter)
getAnalyses(r, reqUser) ==
  /\ areqs[r].pc = "idle"
  /\ areqs' = [areqs EXCEPT ![r] =
       [AReq("getAnalyses", reqUser, 0, NoBody) EXCEPT
          !.pc = "count",
          !.data = MatchingAnalyses(analyses, AnalysisFilter(reqUser))]]
  /\ UNCHANGED analyses
  /\ UNCHANGED nonAnalysis

\* Analysis.countDocuments(filter) and res.json
getAnalysesResponds(r) ==
  /\ areqs[r].pc = "count"
  /\ areqs' = [areqs EXCEPT ![r] = ASend(@, 200, @.data)]
  /\ UNCHANGED analyses
  /\ UNCHANGED nonAnalysis

getAnalysisAnalytics(r, reqUser) ==
  /\ areqs[r].pc = "idle"
  /\ areqs' = [areqs EXCEPT ![r] =
       ASend(AReq("getAnalysisAnalytics", reqUser, 0, NoBody), 200,
             MatchingAnalyses(analyses, AnalysisFilter(reqUser)))]
  /\ UNCHANGED analyses
  /\ UNCHANGED nonAnalysis

getAnalysis(r, reqUser, id) ==
  /\ areqs[r].pc = "idle"
  /\ LET request == AReq("getAnalysis", reqUser, id, NoBody)
     IN areqs' = [areqs EXCEPT ![r] =
          IF id \notin DOMAIN analyses
            THEN ASend(request, 404, {})
            ELSE IF AccessDenied(reqUser, analyses[id], TRUE)
                   THEN ASend(request, 403, {})
                   ELSE ASend(request, 200, {id})]
  /\ UNCHANGED analyses
  /\ UNCHANGED nonAnalysis

createAnalysis(r, reqUser, body) ==
  /\ areqs[r].pc = "idle"
  /\ Len(analyses) < MaxAnalyses
  /\ LET request == AReq("createAnalysis", reqUser, 0, body)
     IN IF body.property \notin DOMAIN props
          THEN /\ areqs' = [areqs EXCEPT ![r] = ASend(request, 404, {})]
               /\ UNCHANGED analyses
          ELSE IF ~body.analysisId
                 THEN /\ areqs' = [areqs EXCEPT ![r] = ASend(request, 500, {})]
                      /\ UNCHANGED analyses
                 ELSE /\ analyses' = Append(analyses, NewAnalysis(reqUser, body))
                      /\ areqs' = [areqs EXCEPT ![r] =
                           ASend(request, 201, {Len(analyses) + 1})]
  /\ UNCHANGED nonAnalysis

WriteHandlers == {"updateAnalysis", "deleteAnalysis", "updateRepairStatus"}

\* updateAnalysis, deleteAnalysis and updateRepairStatus up to the access
\* check on what Analysis.findById(req.params.id) resolved to
findForWrite(r, handler, reqUser, id, body) ==
  /\ areqs[r].pc = "idle"
  /\ handler \in WriteHandlers
  /\ LET request == AReq(handler, reqUser, id, body)
     IN areqs' = [areqs EXCEPT ![r] =
          IF id \notin DOMAIN analyses
            THEN ASend(request, 404, {})
            ELSE IF AccessDenied(reqUser, analyses[id], FALSE)
                   THEN ASend(request, 403, {})
                   ELSE [request EXCEPT !.pc = "write"]]
  /\ UNCHANGED analyses
  /\ UNCHANGED nonAnalysis

\* the response is out; the slot takes the next request
responseSent(r) ==
  /\ areqs[r].pc = "done"
  /\ areqs' = [areqs EXCEPT ![r] = IdleAReq]
  /\ UNCHANGED analyses
  /\ UNCHANGED nonAnalysis

\* { ...req.body, updatedBy: req.user._id }
AnalysisUpdate(doc, body) ==
  [doc EXCEPT !.value = IF body.value = "" THEN @ ELSE body.value,
              !.user = IF body.user = 0 THEN @ ELSE body.user]

\* Analysis.findByIdAndUpdate(req.params.id, { ...req.body, updatedBy })
updateAnalysis(r) ==
  /\ areqs[r].pc = "write"
  /\ areqs[r].handler = "updateAnalysis"
  /\ analyses' = [analyses EXCEPT ![areqs[r].id] =
                    AnalysisUpdate(@, areqs[r].body)]
  /\ areqs' = [areqs EXCEPT ![r] = ASend(@, 200, {@.id})]
  /\ UNCHANGED nonAnalysis

\* Analysis.findByIdAndUpdate(req.params.id, { isActive: false, updatedBy })
deleteAnalysis(r) ==
  /\ areqs[r].pc = "write"
  /\ areqs[r].handler = "deleteAnalysis"
  /\ analyses' = [analyses EXCEPT ![areqs[r].id].isActive = FALSE]
  /\ areqs' = [areqs EXCEPT ![r] = ASend(@, 200, {})]
  /\ UNCHANGED nonAnalysis

\* analysis.updateRepairStatus(repairId, status, actualCost): throws when
\* the analysis has no such repair, else saves the repair's new status
updateRepairStatus(r) ==
  /\ areqs[r].pc = "write"
  /\ areqs[r].handler = "updateRepairStatus"
  /\ IF areqs[r].body.repairFound /\ areqs[r].body.status \in RepairStatusEnum
       THEN /\ analyses' = [analyses EXCEPT ![areqs[r].id].repair =
                              areqs[r].body.status]
            /\ areqs' = [areqs EXCEPT ![r] = ASend(@, 200, {@.id})]
       ELSE /\ UNCHANGED analyses
            /\ areqs' = [areqs EXCEPT ![r] = ASend(@, 500, {})]
  /\ UNCHANGED nonAnalysis

\* the seed admin and an account that registered
ReqUsers == {ReqUser("Admin", 1), ReqUser("Investor", 2)}

AnalysisIds == 1..(MaxAnalyses + 1)

\* Requests that only read, or only add a document, do not affect one
\* another: one of them at a time runs beside the requests that write.
ReadReqIds == {1}

CreateBodies ==
  {[NoBody EXCEPT !.value = "v0", !.analysisId = a, !.property = p] :
     a \in BOOLEAN, p \in 1..2}

WriteBodies(handler) ==
  CASE handler = "updateAnalysis" ->
         {[NoBody EXCEPT !.value = "v1"], [NoBody EXCEPT !.user = 1]}
    [] handler = "updateRepairStatus" ->
         {[NoBody EXCEPT !.repairFound = f, !.status = "Completed"] :
            f \in BOOLEAN}
    [] OTHER -> {NoBody}

AnalysisInit ==
  /\ LaterAtRest
  /\ isRunning = [s \in Scheds |-> FALSE]
  /\ run = [r \in RunIds |-> IdleRun]
  /\ props = <<OakProperty>>
  /\ lastTrig = 0
  /\ HttpAtRest
  /\ RegAtRest
  /\ CrudAtRest
  /\ CallAtRest

AnalysisNext ==
  \/ \E r \in ReadReqIds : \E reqUser \in ReqUsers : getAnalyses(r, reqUser)
  \/ \E r \in ReadReqIds : getAnalysesResponds(r)
  \/ \E r \in ReadReqIds : \E reqUser \in ReqUsers :
       getAnalysisAnalytics(r, reqUser)
  \/ \E r \in ReadReqIds : \E reqUser \in ReqUsers : \E id \in AnalysisIds :
       getAnalysis(r, reqUser, id)
  \/ \E r \in ReadReqIds : \E reqUser \in ReqUsers : \E body \in CreateBodies :
       createAnalysis(r, reqUser, body)
  \/ \E r \in AReqIds : \E handler \in WriteHandlers :
       \E reqUser \in ReqUsers : \E id \in AnalysisIds :
         \E body \in WriteBodies(handler) :
           findForWrite(r, handler, reqUser, id, body)
  \/ \E r \in AReqIds : updateAnalysis(r)
  \/ \E r \in AReqIds : deleteAnalysis(r)
  \/ \E r \in AReqIds : updateRepairStatus(r)
  \/ \E r \in AReqIds : responseSent(r)

SpecAnalysis == AnalysisInit /\ [][AnalysisNext]_vars

(***************************************************************************)
(* Soft delete: the delete handlers of the four controllers beside the     *)
(* list endpoints, over the live collections.                              *)
(***************************************************************************)
CollectionOf(handler) == IF handler = "getProperties" THEN props ELSE leads

\* getProperties / getLeads with the default query: page 1 of 20
getList(handler) ==
  /\ handler \in {"getProperties", "getLeads"}
  /\ listing' = [handler |-> handler,
                 data |-> Matching(CollectionOf(handler), ListFilter(handler))]
  /\ UNCHANGED nonListing

SoftInit ==
  /\ EarlierAtRest
  /\ LaterAtRest

SoftNext ==
  \/ createLead(LeadBody(TRUE, "", ""))
  \/ \E id \in ParamIds : deleteLead(id)
  \/ createProperty(OakProperty)
  \/ \E id \in ParamIds : deleteProperty(id)
  \/ \E id \in ParamIds : \E reqUser \in Requesters : deleteUser(id, reqUser)
  \/ \E body \in CreateBodies : createAnalysis(1, ReqUser("Admin", 1), body)
  \/ \E reqUser \in ReqUsers : \E id \in AnalysisIds :
       findForWrite(1, "deleteAnalysis", reqUser, id, NoBody)
  \/ deleteAnalysis(1)
  \/ \E reqUser \in ReqUsers : getAnalyses(1, reqUser)
  \/ getAnalysesResponds(1)
  \/ responseSent(1)
  \/ \E handler \in {"getProperties", "getLeads"} : getList(handler)

SpecSoft == SoftInit /\ [][SoftNext]_vars

(***************************************************************************)
(* The requests that write user documents, made by the accounts of the     *)
(* store: protect loads req.user from the User collection, so a requester  *)
(* is an active stored user and carries its stored role.                   *)
(***************************************************************************)
\* the seed admin and one registered account
TwoUsers == SeedUsers \o <<StoredUser(Email("ann@x.com", FALSE, FALSE))>>

\* req.user of a request by the stored user i, on req.params.id = id
RequesterOf(i, id) == Requester(users[i].role, i = id)

\* who can get through protect
ActiveUsers == {i \in DOMAIN users : users[i].isActive}

\* req.params.id: no ObjectId (0), the stored users, an id of no user
UserParamIds == 0..(Len(TwoUsers) + 1)

UserBodies ==
  {UserBody(h[1], h[2], kv[1], kv[2]) :
     h \in {<<FALSE, FALSE>>, <<TRUE, FALSE>>, <<TRUE, TRUE>>},
     kv \in {<<"role", "Admin">>, <<"role", "Bogus">>, <<"$set", "Admin">>,
             <<"subscription", "Enterprise">>,
             <<"subscription.plan", "Enterprise">>,
             <<"subscription.plan", "Bogus">>, <<"firstName", "Ann">>}}

UsersInit ==
  /\ users = TwoUsers
  /\ regs = [i \in RegIds |-> IdleReg]
  /\ SchedAtRest
  /\ HttpAtRest
  /\ CrudAtRest
  /\ CallAtRest
  /\ LaterAtRest

UsersNext ==
  \/ \E i \in ActiveUsers : \E id \in UserParamIds : \E body \in UserBodies :
       updateUser(id, RequesterOf(i, id), body)
  \/ \E i \in ActiveUsers : \E body \in UserBodies : updateProfile(i, body)
  \/ \E i \in ActiveUsers : \E id \in UserParamIds :
       \E plan \in {"Basic", "Bogus"} :
         updateSubscription(id, RequesterOf(i, id), plan)
  \/ \E i \in ActiveUsers : \E userIds \in SUBSET (1..Len(TwoUsers)) :
       \E value \in BodyValues("role") :
         bulkUpdateUsers(userIds, RequesterOf(i, 0), value)
  \/ \E i \in ActiveUsers : \E id \in UserParamIds :
       deleteUser(id, RequesterOf(i, id))
  \/ \E i \in ActiveUsers : \E id \in UserParamIds :
       userGenerateApiKey(id, RequesterOf(i, id))
  \/ \E i \in ActiveUsers : authGenerateApiKey(i)

SpecUsers == UsersInit /\ [][UsersNext]_vars

(***************************************************************************)
(* Lead scores.  The four factors and the total are the paths             *)
(* score.factors.* and score.total of a lead document; a lead is scored   *)
(* from the facts of its property.                                        *)
(***************************************************************************)

\* the facts of a property the scoring reads; auctionDays is the whole days
\* from now to foreclosureDetails.auctionDate and NoAuction when there is no
\* date; estimatedEquity 0 is the absent (falsy) value
NoAuction == 0 - 100000
Facts(foreclosureStatus, taxDelinquent, isAbsenteeOwner, auctionDays,
      estimatedEquity, condition) ==
  [foreclosureStatus |-> foreclosureStatus, taxDelinquent |-> taxDelinquent,
   isAbsenteeOwner |-> isAbsenteeOwner, auctionDays |-> auctionDays,
   estimatedEquity |-> estimatedEquity, condition |-> condition]

min(a, b) == IF a < b THEN a ELSE b

scoreMotivation(property) ==
  min((IF property.foreclosureStatus = "Pre-Foreclosure" THEN 15 ELSE 0)
      + (IF property.taxDelinquent THEN 10 ELSE 0)
      + (IF property.isAbsenteeOwner THEN 5 ELSE 0), 25)

scoreTimeline(property) ==
  IF property.auctionDays = NoAuction THEN 15
  ELSE IF property.auctionDays < 30 THEN 25
  ELSE IF property.auctionDays < 90 THEN 20
  ELSE IF property.auctionDays < 180 THEN 15
  ELSE 10

scoreEquity(property) ==
  IF property.estimatedEquity > 100000 THEN 25
  ELSE IF property.estimatedEquity > 50000 THEN 20
  ELSE IF property.estimatedEquity > 25000 THEN 15
  ELSE IF property.estimatedEquity > 0 THEN 10
  ELSE 5

scoreCondition(property) ==
  CASE property.condition = "Excellent" -> 25
    [] property.condition = "Good" -> 20
    [] property.condition = "Fair" -> 15
    [] property.condition = "Poor" -> 10
    [] OTHER -> 5

\* one turn of the loop of runLeadScoringUpdate, for the lead id of the
\* leads found (active, neither Closed nor Lost) whose property was found
Rescored(doc, property) ==
  preSave([doc EXCEPT !.motivation = scoreMotivation(property),
                      !.timeline = scoreTimeline(property),
                      !.equity = scoreEquity(property),
                      !.condition = scoreCondition(property),
                      !.total = scoreMotivation(property)
                                + scoreTimeline(property)
                                + scoreEquity(property)
                                + scoreCondition(property)])

runLeadScoringUpdate(id, property) ==
  /\ id \in DOMAIN leads
  /\ leads[id].isActive
  /\ leads[id].status \notin {"Closed", "Lost"}
  /\ leads' = [leads EXCEPT ![id] = Rescored(@, property)]
  /\ UNCHANGED <<props, users, res>>
  /\ UNCHANGED nonCrud

\* LeadController.addCommunication with leadSchema.methods.addCommunication:
\* valid says whether the pushed communication passes its validators
addCommunication(id, valid) ==
  /\ IF id \notin DOMAIN leads
       THEN UNCHANGED leads /\ res' = 404
       ELSE IF ~valid
              THEN UNCHANGED leads /\ res' = 500
              ELSE leads' = [leads EXCEPT ![id] = preSave(@)] /\ res' = 200
  /\ UNCHANGED <<props, users>>
  /\ UNCHANGED nonCrud

\* LeadController.assignLead with leadSchema.methods.assignTo
assignLead(id) ==
  /\ IF id \notin DOMAIN leads
       THEN UNCHANGED leads /\ res' = 404
       ELSE leads' = [leads EXCEPT ![id] = preSave(@)] /\ res' = 200
  /\ UNCHANGED <<props, users>>
  /\ UNCHANGED nonCrud

\* a body of POST /api/leads that carries a score
ScoredBody(motivation, total) ==
  [LeadBody(TRUE, "", "") EXCEPT !.factors.motivation = motivation,
                                 !.total = total]

\* the requests and the properties of the score specification
ScoreBodies == {LeadBody(TRUE, "", ""), ScoredBody(20, 90), ScoredBody(30, 0)}
ScorePaths == {"motivation", "equity", "total", "status"}
ScoreValues(path) ==
  CASE path = "status" -> {"Closed"}
    [] path = "total" -> {90, 101}
    [] OTHER -> {25, 26}
ScoredProperties ==
  {Facts("Pre-Foreclosure", TRUE, TRUE, 10, 120000, "Excellent"),
   Facts("Auction", FALSE, TRUE, 100, 30000, "Fair"),
   Facts("Auction", FALSE, FALSE, NoAuction, 0, "Unknown")}

ScoreInit ==
  /\ EarlierAtRest
  /\ LaterAtRest

ScoreNext ==
  \/ \E body \in ScoreBodies : createLead(body)
  \/ \E id \in ParamIds : \E path \in ScorePaths :
       \E value \in ScoreValues(path) : updateLead(id, path, value)
  \/ \E leadIds \in SUBSET DocIds : \E path \in ScorePaths :
       \E value \in ScoreValues(path) : bulkUpdateLeads(leadIds, path, value)
  \/ \E id \in ParamIds : \E valid \in BOOLEAN : addCommunication(id, valid)
  \/ \E id \in ParamIds : \E status \in {"Contacted", "Bogus"} :
       updateStatus(id, status)
  \/ \E id \in ParamIds : assignLead(id)
  \/ \E id \in DocIds : \E property \in ScoredProperties :
       runLeadScoringUpdate(id, property)

SpecScore == ScoreInit /\ [][ScoreNext]_vars

(***************************************************************************)
(* The start script and the job registry of the scheduler.  A cron job is  *)
(* the pair of its name and the serial number cron.schedule made it with;  *)
(* cronJobs holds the jobs that are live, job.destroy() takes one out.     *)
(***************************************************************************)

\* the names startScheduledJobs registers, in its order
JobOrder ==
  <<"daily-foreclosure-scrape", "hourly-enrichment", "weekly-market-update",
    "daily-lead-scoring">>
JobNames == {JobOrder[i] : i \in DOMAIN JobOrder}

Job(name, serial) == [name |-> name, serial |-> serial]

\* the registry, the live jobs and the count, as one value
Registry(map, live, count) == [jobs |-> map, cronJobs |-> live, created |-> count]

\* the Map after jobs.set(name, job)
MapSet(map, name, job) ==
  [n \in DOMAIN map \cup {name} |-> IF n = name THEN job ELSE map[n]]

\* scheduleJob that leaves the job already registered under the name alive
scheduleJobKeepingOld(reg, name) ==
  LET job == Job(name, reg.created + 1)
  IN Registry(MapSet(reg.jobs, name, job), reg.cronJobs \cup {job},
              reg.created + 1)

\* scheduleJob(name, cronExpression, task)
scheduleJob(reg, name) ==
  LET live == IF name \in DOMAIN reg.jobs
                THEN reg.cronJobs \ {reg.jobs[name]}
                ELSE reg.cronJobs
      job == Job(name, reg.created + 1)
  IN Registry(MapSet(reg.jobs, name, job), live \cup {job}, reg.created + 1)

\* the four scheduleJob calls of startScheduledJobs, from the i-th on
RECURSIVE ScheduleFrom(_, _)
ScheduleFrom(reg, i) ==
  IF i > Len(JobOrder) THEN reg
  ELSE ScheduleFrom(scheduleJob(reg, JobOrder[i]), i + 1)

SetRegistry(reg) ==
  /\ jobs' = reg.jobs
  /\ cronJobs' = reg.cronJobs
  /\ created' = reg.created

\* scheduler.initialize(): puppeteer.launch resolves, or rejects and
\* startScheduler logs the error
initialize(launched) ==
  /\ proc = "loaded"
  /\ IF launched
       THEN browser' = "open" /\ proc' = "initialized"
       ELSE browser' = "none" /\ proc' = "failed"
  /\ UNCHANGED <<jobs, cronJobs, created>>
  /\ UNCHANGED nonJobs

startScheduledJobs ==
  /\ proc \in {"initialized", "started"}
  /\ created + Len(JobOrder) <= MaxJobs
  /\ SetRegistry(ScheduleFrom(Registry(jobs, cronJobs, created), 1))
  /\ proc' = "started"
  /\ UNCHANGED browser
  /\ UNCHANGED nonJobs

\* one scheduleJob call on the scheduler
scheduleOne(name) ==
  /\ proc \in {"initialized", "started"}
  /\ created < MaxJobs
  /\ SetRegistry(scheduleJob(Registry(jobs, cronJobs, created), name))
  /\ UNCHANGED <<browser, proc>>
  /\ UNCHANGED nonJobs

\* jobs.forEach(job.destroy()), jobs.clear()
Stopped(reg) ==
  Registry(NoJobs, reg.cronJobs \ {reg.jobs[n] : n \in DOMAIN reg.jobs},
           reg.created)

stopScheduledJobs ==
  /\ proc \in {"initialized", "started"}
  /\ SetRegistry(Stopped(Registry(jobs, cronJobs, created)))
  /\ UNCHANGED <<browser, proc>>
  /\ UNCHANGED nonJobs

\* shutdown(): stopScheduledJobs, then scraper.close() closes the browser
\* there is
shutdown ==
  /\ proc \in {"initialized", "started"}
  /\ SetRegistry(Stopped(Registry(jobs, cronJobs, created)))
  /\ browser' = IF browser = "open" THEN "closed" ELSE browser
  /\ UNCHANGED proc
  /\ UNCHANGED nonJobs

\* the handlers of SIGINT and SIGTERM: a log line and process.exit(0)
Signals == {"SIGINT", "SIGTERM"}
onSignal(signal) ==
  /\ proc # "exited"
  /\ proc' = "exited"
  /\ UNCHANGED <<jobs, cronJobs, created, browser>>
  /\ UNCHANGED nonJobs

JobsInit ==
  /\ EarlierAtRest
  /\ LaterAtRest

JobsNext ==
  \/ \E launched \in BOOLEAN : initialize(launched)
  \/ startScheduledJobs
  \/ \E name \in JobNames : scheduleOne(name)
  \/ stopScheduledJobs
  \/ shutdown
  \/ \E signal \in Signals : onSignal(signal)

SpecJobs == JobsInit /\ [][JobsNext]_vars

(***************************************************************************)
(* AuthController.login, one action for the code between two awaits:       *)
(* User.findOne, user.comparePassword, user.updateActivity.                *)
(***************************************************************************)

\* req.body of a login: email, and password when the body has one
LoginBody(email, hasPassword, password) ==
  [email |-> email, hasPassword |-> hasPassword, password |-> password]

\* the stored users User.findOne({ email }) matches
UsersByEmail(email) == {i \in DOMAIN users : users[i].email = CastEmail(email)}

\* bcrypt.compare(candidate, hash) of two strings
comparePassword(candidate, hash) == Hash(candidate) = hash

LoginSend(r, status, token) ==
  login' = [login EXCEPT !.reqs[r].pc = "done", !.reqs[r].status = status,
                         !.reqs[r].token = token]

loginBegin(r, body) ==
  /\ login.reqs[r].pc \in {"idle", "done"}
  /\ login.begun < MaxLogins
  /\ login' = [login EXCEPT
       !.begun = @ + 1,
       !.reqs[r] = [IdleLogin EXCEPT !.pc = "findOne", !.email = body.email,
                                     !.hasPassword = body.hasPassword,
                                     !.password = body.password]]
  /\ UNCHANGED users
  /\ UNCHANGED nonLogin

\* User.findOne resolves: 401 for no user and for a deactivated one
loginFindOne(r) ==
  /\ login.reqs[r].pc = "findOne"
  /\ IF UsersByEmail(login.reqs[r].email) = {}
       THEN LoginSend(r, 401, FALSE)
       ELSE \E i \in UsersByEmail(login.reqs[r].email) :
              IF ~users[i].isActive
                THEN LoginSend(r, 401, FALSE)
                ELSE login' = [login EXCEPT
                       !.reqs[r].pc = "compare", !.reqs[r].user = i,
                       !.reqs[r].loginCount = users[i].loginCount]
  /\ UNCHANGED users
  /\ UNCHANGED nonLogin

\* comparePassword resolves, or rejects for a password that is no string;
\* the password compared is the one findOne loaded
loginCompare(r) ==
  /\ login.reqs[r].pc = "compare"
  /\ IF ~login.reqs[r].hasPassword
       THEN LoginSend(r, 500, FALSE)
       ELSE IF ~comparePassword(login.reqs[r].password,
                                users[login.reqs[r].user].password)
              THEN LoginSend(r, 401, FALSE)
              ELSE login' = [login EXCEPT !.reqs[r].pc = "updateActivity"]
  /\ UNCHANGED users
  /\ UNCHANGED nonLogin

\* updateActivity on the document findOne loaded, save, res.json with token
loginUpdateActivity(r) ==
  /\ login.reqs[r].pc = "updateActivity"
  /\ users' = [users EXCEPT
       ![login.reqs[r].user].lastLogin = login.begun,
       ![login.reqs[r].user].loginCount = login.reqs[r].loginCount + 1]
  /\ LoginSend(r, 200, TRUE)
  /\ UNCHANGED nonLogin

\* the accounts and the bodies of the login specification
LoginUsers ==
  TwoUsers \o <<[StoredUser(Email("bob@x.com", FALSE, FALSE)) EXCEPT
                   !.isActive = FALSE]>>
LoginBodies ==
  {LoginBody(Email(addr, FALSE, FALSE), pw[1], pw[2]) :
     addr \in {"admin@reai.com", "bob@x.com", "nobody@x.com"},
     pw \in {<<TRUE, "admin123">>, <<TRUE, "password123">>, <<FALSE, "">>}}

LoginInit ==
  /\ users = LoginUsers
  /\ regs = [i \in RegIds |-> IdleReg]
  /\ SchedAtRest
  /\ HttpAtRest
  /\ CrudAtRest
  /\ CallAtRest
  /\ LaterAtRest

LoginNext ==
  \/ \E r \in LoginIds : \E body \in LoginBodies : loginBegin(r, body)
  \/ \E r \in LoginIds : loginFindOne(r)
  \/ \E r \in LoginIds : loginCompare(r)
  \/ \E r \in LoginIds : loginUpdateActivity(r)

SpecLogin == LoginInit /\ [][LoginNext]_vars

(***************************************************************************)
(* AuthController.forgotPassword and resetPassword, one action for the     *)
(* code between two awaits: User.findOne, then user.save.                  *)
(***************************************************************************)

\* 10 * 60 * 1000 milliseconds, in ticks of the clock
TenMinutes == 2

\* userSchema.password minlength
MinPasswordLength == 6
PasswordLength(password) == IF password = "abc" THEN 3 ELSE 8

\* the filter resetPassword builds on passwordResetToken from req.body.token:
\* a string is an equality, an object such as { "$ne": null } is an operator
TokenFilter(op, token) == [op |-> op, token |-> token]

TokenMatches(doc, op, token) ==
  IF op = "$ne" THEN doc.passwordResetToken # 0
  ELSE doc.passwordResetToken = token

\* User.findOne({ passwordResetToken: token,
\*                passwordResetExpires: { $gt: Date.now() } })
UsersByResetToken(op, token) ==
  {i \in DOMAIN users : /\ TokenMatches(users[i], op, token)
                        /\ users[i].passwordResetExpires > resets.now}

ResetSend(r, status) ==
  resets' = [resets EXCEPT !.reqs[r].pc = "done", !.reqs[r].status = status]

\* forgotPassword up to the resolution of User.findOne({ email })
forgotFind(r, email) ==
  /\ resets.reqs[r].pc \in {"idle", "done"}
  /\ resets.issued
       + Cardinality({q \in ResetIds : resets.reqs[q].pc = "forgotSave"})
       < MaxTokens
  /\ IF UsersByEmail(email) = {}
       THEN resets' = [resets EXCEPT
              !.reqs[r] = [IdleReset EXCEPT !.pc = "done", !.status = 404]]
       ELSE \E i \in UsersByEmail(email) :
              resets' = [resets EXCEPT
                !.reqs[r] = [IdleReset EXCEPT !.pc = "forgotSave", !.user = i]]
  /\ UNCHANGED users
  /\ UNCHANGED nonResets

\* the token drawn, token and expiry saved, the 200
forgotSave(r) ==
  /\ resets.reqs[r].pc = "forgotSave"
  /\ users' = [users EXCEPT
       ![resets.reqs[r].user].passwordResetToken = resets.issued + 1,
       ![resets.reqs[r].user].passwordResetExpires = resets.now + TenMinutes]
  /\ resets' = [resets EXCEPT !.issued = @ + 1, !.reqs[r].pc = "done",
                              !.reqs[r].status = 200]
  /\ UNCHANGED nonResets

\* resetPassword up to the resolution of User.findOne
resetFind(r, filter, password) ==
  /\ resets.reqs[r].pc \in {"idle", "done"}
  /\ resets.begun < MaxResets
  /\ IF UsersByResetToken(filter.op, filter.token) = {}
       THEN resets' = [resets EXCEPT
              !.begun = @ + 1,
              !.reqs[r] = [IdleReset EXCEPT !.pc = "done", !.status = 400,
                             !.op = filter.op, !.token = filter.token]]
       ELSE \E i \in UsersByResetToken(filter.op, filter.token) :
              resets' = [resets EXCEPT
                !.begun = @ + 1,
                !.reqs[r] = [IdleReset EXCEPT
                   !.pc = "resetSave", !.user = i, !.op = filter.op,
                   !.token = filter.token, !.password = password,
                   !.at = resets.now]]
  /\ UNCHANGED users
  /\ UNCHANGED nonResets

\* user.save(): the validators, then password, token and expiry written
resetSave(r) ==
  /\ resets.reqs[r].pc = "resetSave"
  /\ IF PasswordLength(resets.reqs[r].password) < MinPasswordLength
       THEN UNCHANGED users /\ ResetSend(r, 500)
       ELSE /\ users' = [users EXCEPT
                 ![resets.reqs[r].user].password =
                    Hash(resets.reqs[r].password),
                 ![resets.reqs[r].user].passwordResetToken = 0,
                 ![resets.reqs[r].user].passwordResetExpires = 0]
            /\ ResetSend(r, 200)
  /\ UNCHANGED nonResets

\* five minutes pass
Tick ==
  /\ resets.now < MaxTime
  /\ resets' = [resets EXCEPT !.now = @ + 1]
  /\ UNCHANGED users
  /\ UNCHANGED nonResets

\* the bodies of the reset specification
ForgotEmails ==
  {Email(addr, FALSE, FALSE) : addr \in {"admin@reai.com", "nobody@x.com"}}
ResetFilters ==
  {TokenFilter("$eq", token) : token \in 1..(MaxTokens + 1)}
  \cup {TokenFilter("$ne", 0)}
ResetPasswords == {"newpass1", "newpass2", "abc"}

ResetsInit ==
  /\ users = TwoUsers
  /\ regs = [i \in RegIds |-> IdleReg]
  /\ SchedAtRest
  /\ HttpAtRest
  /\ CrudAtRest
  /\ CallAtRest
  /\ LaterAtRest

ResetsNext ==
  \/ \E r \in ResetIds : \E email \in ForgotEmails : forgotFind(r, email)
  \/ \E r \in ResetIds : forgotSave(r)
  \/ \E r \in ResetIds : \E filter \in ResetFilters :
       \E password \in ResetPasswords : resetFind(r, filter, password)
  \/ \E r \in ResetIds : resetSave(r)
  \/ Tick

SpecResets == ResetsInit /\ [][ResetsNext]_vars

(***************************************************************************)
(* The scheduled runs of one scheduler with the pages of its browser.  A   *)
(* scrape call settles in one step: it returns with its page closed, or    *)
(* it throws, before browser.newPage() gave a page or after.               *)
(***************************************************************************)

\* the pages a scrape call that threw leaves open: scrapeSite closes its
\* page in its catch, the catch of the other three logs and rethrows
PagesLeftBy(op, pageOpened) ==
  IF pageOpened /\ op # "siteScrape" THEN 1 ELSE 0

\* the callback fires: runForeclosureDataCollection up to its first await
RunFire(r) ==
  /\ FreeSlot(r)
  /\ scraper.fires < MaxFires
  /\ scraper' = [scraper EXCEPT !.fires = @ + 1]
  /\ IF Skips("cron")
     THEN /\ run' = [run EXCEPT ![r] = [IdleRun EXCEPT !.kind = "skipped",
                                                        !.pc = "skipped"]]
          /\ UNCHANGED isRunning
     ELSE /\ isRunning' = [isRunning EXCEPT !["cron"] = TRUE]
          /\ run' = [run EXCEPT ![r] =
               BeginArea([IdleRun EXCEPT !.kind = "scheduled",
                                         !.areas = TargetAreas], 1)]
  /\ UNCHANGED nonRun

\* a scrape call threw; the catch of the area or of the site logs it
ScrapeFails(r, pageOpened) ==
  /\ run[r].pc \in ScrapeOps
  /\ scraper' = [scraper EXCEPT
       !.pages = @ + PagesLeftBy(run[r].pc, pageOpened)]
  /\ Settle(r, AfterScrapeThrow(run[r]))
  /\ UNCHANGED nonRun

\* a step of a run in which no scrape throws
RunStep(r) ==
  \/ ReturnSkipped(r)
  \/ \E rawData \in SeqsUpTo(SchedItems \cup PublicRecordItems, MaxItems) :
       ScrapeReturns(r, rawData)
  \/ SaveFind(r)
  \/ SaveWrite(r)
  \/ SaveDone(r)

RunInit ==
  /\ EarlierAtRest
  /\ LaterAtRest

RunNext ==
  \/ \E r \in RunIds : RunFire(r)
  \/ \E r \in RunIds : \E pageOpened \in BOOLEAN : ScrapeFails(r, pageOpened)
  \/ \E r \in RunIds : RunStep(r)

SpecRun == RunInit /\ [][RunNext]_vars

\* each scraper call returns or throws, each save step settles
RunSettles ==
  WF_vars(\E r \in RunIds :
            RunStep(r) \/ \E pageOpened \in BOOLEAN : ScrapeFails(r, pageOpened))

SpecRunFair == SpecRun /\ RunSettles

(***************************************************************************)
(* Requests that write isActive of a property or a lead, made by one       *)
(* signed-in user: the router runs the gate of the route on req.user and,  *)
(* if the gate calls next(), the handler.  The variable user is req.user   *)
(* as protect loaded it.                                                   *)
(***************************************************************************)
\* the routes of the two routers that end in a write of one document
ActiveRoutes ==
  {"PUT /api/properties/:id", "DELETE /api/properties/:id",
   "PATCH /api/properties/bulk", "PUT /api/leads/:id",
   "DELETE /api/leads/:id", "PATCH /api/leads/bulk"}

\* the gate answered and the handler never ran
Refused(status) ==
  /\ res' = status
  /\ UNCHANGED <<props, leads, users>>
  /\ UNCHANGED nonCrud

\* one request for a route with req.params.id (or the ids of the bulk
\* body) and a body that names one path
routeRequest(name, id, path, value) ==
  LET g == Gate(RouteNamed(name).gate, user)
  IN IF g.nexts = 0
       THEN Refused(Head(g.sent).status)
       ELSE CASE name = "PUT /api/properties/:id" ->
                   updateProperty(id, path, value)
              [] name = "DELETE /api/properties/:id" -> deleteProperty(id)
              [] name = "PATCH /api/properties/bulk" ->
                   bulkUpdateProperties({id} \cap DocIds, path, value)
              [] name = "PUT /api/leads/:id" -> updateLead(id, path, value)
              [] name = "DELETE /api/leads/:id" -> deleteLead(id)
              [] OTHER -> bulkUpdateLeads({id} \cap DocIds, path, value)

\* what the bodies of these requests carry
ActivePaths(name) ==
  IF RouteNamed(name).writes = "Property"
    THEN {"isActive", "leadStatus"} ELSE {"isActive", "status"}
ActiveValues(path) == IF path = "isActive" THEN BOOLEAN ELSE BodyValues(path)

\* any active account of any role may be the one signed in
SignedIn == {UserDoc(role, "Professional", TRUE, TRUE) : role \in Roles}

ActiveInit ==
  /\ user \in SignedIn
  /\ req = IdleReq
  /\ SchedAtRest
  /\ RegAtRest
  /\ CrudAtRest
  /\ CallAtRest
  /\ LaterAtRest

ActiveNext ==
  \/ createLead(LeadBody(TRUE, "", ""))
  \/ createProperty(OakProperty)
  \/ \E name \in ActiveRoutes : \E id \in ParamIds :
       \E path \in ActivePaths(name) : \E value \in ActiveValues(path) :
         routeRequest(name, id, path, value)

SpecActive == ActiveInit /\ [][ActiveNext]_vars

(***************************************************************************)
(* The user-management requests of the accounts of the store, with bodies  *)
(* that name role or isActive.  Each handler makes one call to the store,  *)
(* so any interleaving of these requests is a sequence of these actions.   *)
(***************************************************************************)
RoleBodies ==
  {UserBody(h, FALSE, kv[1], kv[2]) :
     h \in BOOLEAN,
     kv \in {<<"role", "Admin">>, <<"role", "Viewer">>, <<"firstName", "Ann">>}}
IsActiveBodies == {UserBody(TRUE, FALSE, "isActive", value) : value \in BOOLEAN}

AdminsNext ==
  \/ \E i \in ActiveUsers : \E id \in UserParamIds : \E body \in RoleBodies :
       updateUser(id, RequesterOf(i, id), body)
  \/ \E i \in ActiveUsers : \E id \in UserParamIds :
       \E body \in IsActiveBodies : updateUser(id, RequesterOf(i, id), body)
  \/ \E i \in ActiveUsers : \E id \in UserParamIds :
       \E plan \in {"Basic", "Bogus"} :
         updateSubscription(id, RequesterOf(i, id), plan)
  \/ \E i \in ActiveUsers : \E userIds \in SUBSET (1..Len(TwoUsers)) :
       \E value \in {"Admin", "Viewer"} :
         bulkUpdateUsers(userIds, RequesterOf(i, 0), value)
  \/ \E i \in ActiveUsers : \E id \in UserParamIds :
       deleteUser(id, RequesterOf(i, id))

SpecAdmins == UsersInit /\ [][AdminsNext]_vars

(***************************************************************************)
(* C1.  On one scheduler instance at most one execution of                 *)
(* runForeclosureDataCollection is past its isRunning check at any time,   *)
(* the flag is set while it is, and a call that found the flag set has     *)
(* scraped and saved nothing.                                              *)
(***************************************************************************)
C1_SingleScheduledRun ==
  /\ Cardinality({r \in RunIds : run[r].kind = "scheduled"}) <= 1
  /\ \A r \in RunIds : run[r].kind = "scheduled" => isRunning[run[r].sched]
  /\ \A r \in RunIds :
       run[r].kind = "skipped" =>
         /\ run[r].pending = {} /\ run[r].cur = NoStep
         /\ run[r].items = <<>> /\ run[r].out = 0

C1_Witness ==
  \E r, q \in RunIds :
    /\ run[r].kind = "scheduled" /\ run[r].pc = "siteScrape"
    /\ isRunning[run[r].sched]
    /\ run[q].kind = "skipped" /\ run[q].sched = run[r].sched

(***************************************************************************)
(* C2.  No collection run is started while another one is in progress: a   *)
(* manual run never overlaps a scheduled or an earlier manual run.         *)
(***************************************************************************)
C2_NoOverlappingRuns ==
  Cardinality({r \in RunIds : Active(run[r])}) <= 1

(***************************************************************************)
(* C3.  protect lets the request on only if the Authorization header       *)
(* starts with Bearer, its token verifies, the user the token names exists *)
(* and that user is active when the request is handled; in every other     *)
(* case exactly one 401 is sent and the handler is not invoked; no request *)
(* gets both next() and a 401.                                             *)
(***************************************************************************)
Authenticates(header, store) ==
  /\ header.scheme = "Bearer"
  /\ header.token = "u1"
  /\ store.isActive

C3_ProtectGate ==
  [][(req.pc = "arrived" /\ req'.pc # "arrived") =>
       /\ (req'.nexts > 0 \/ req'.ran) => Authenticates(req.header, user)
       /\ ~Authenticates(req.header, user) =>
            /\ req'.status = 401 /\ req'.sends = 1
            /\ req'.pc = "done" /\ ~req'.ran
       /\ ~(req'.nexts > 0 /\ req'.status = 401)
       /\ req'.nexts <= 1
    ]_vars

\* a token signed while the account was active is refused once the account
\* has been deactivated
C3_Witness ==
  /\ req.pc = "done" /\ req.header = Header("Bearer", "u1")
  /\ req.message = "Not authorized, account deactivated"
  /\ req.status = 401 /\ req.nexts = 0 /\ ~req.ran

(***************************************************************************)
(* C4.  On the routes declared with authorize -- property and lead delete  *)
(* and bulk update for Admin or Manager; user list, analytics, export,     *)
(* delete, subscription update, bulk update and the data-collection        *)
(* trigger for Admin -- the handler runs only when the requester's role is *)
(* one of the declared roles; otherwise the response is 403 (401 without   *)
(* an authenticated user) and no record is written.                        *)
(***************************************************************************)
AdminOrManagerOnly ==
  {"DELETE /api/properties/:id", "PATCH /api/properties/bulk",
   "DELETE /api/leads/:id", "PATCH /api/leads/bulk"}

AdminOnly ==
  {"GET /api/users", "GET /api/users/analytics", "GET /api/users/export",
   "DELETE /api/users/:id", "PATCH /api/users/:id/subscription",
   "PATCH /api/users/bulk", "POST /api/automation/data-collection"}

AllowedRoles(name) ==
  IF name \in AdminOnly THEN {"Admin"} ELSE {"Admin", "Manager"}

C4_AuthorizeGate ==
  [][/\ {rt.name : rt \in {x \in Routes : x.gate.kind = "authorize"}}
          = AdminOrManagerOnly \cup AdminOnly
     /\ \A roles \in {{"Admin"}, {"Admin", "Manager"}} :
          authorize(roles, Null).sent = <<Resp(401, "Not authorized")>>
     /\ (req.pc = "arrived" /\ req'.pc # "arrived"
           /\ req.route \in AdminOrManagerOnly \cup AdminOnly) =>
          /\ req'.ran => user.role \in AllowedRoles(req.route)
          /\ (req'.nexts > 0 /\ user.role \notin AllowedRoles(req.route)) =>
               /\ req'.status = 403 /\ req'.sends = 1
               /\ req'.pc = "done" /\ ~req'.ran
          /\ user' = user /\ req'.wrote = ""
     /\ (req'.wrote # "" /\ req.wrote = "") => req.ran
    ]_vars

C4_Witness ==
  /\ req.pc = "done" /\ req.route = "DELETE /api/leads/:id"
  /\ req.status = 403 /\ req.nexts = 1 /\ ~req.ran /\ req.wrote = ""
  /\ user.role = "Agent"

(***************************************************************************)
(* C5.  On the routes declared with checkSubscription(P) the handler runs  *)
(* only if the requester's plan is at or above P in the order Free < Basic *)
(* < Professional < Enterprise and the subscription is active; a lower     *)
(* plan gets 403 "requires P plan or higher", an inactive subscription     *)
(* gets 403 on every plan, Enterprise included.                            *)
(***************************************************************************)
PlanRank ==
  [Free |-> 1, Basic |-> 2, Professional |-> 3, Enterprise |-> 4]

C5_SubscriptionGate ==
  [][(req.pc = "arrived" /\ req'.pc # "arrived"
        /\ RouteNamed(req.route).gate.kind = "checkSubscription") =>
       LET P == RouteNamed(req.route).gate.plan
           lower == PlanRank[user.plan] < PlanRank[P]
       IN /\ req'.ran => (~lower /\ user.subActive)
          /\ (req'.nexts > 0 /\ lower) =>
               /\ req'.status = 403 /\ req'.message = RequiresPlan(P)
               /\ ~req'.ran /\ req'.pc = "done"
          /\ (req'.nexts > 0 /\ ~user.subActive) =>
               /\ req'.status = 403 /\ ~req'.ran /\ req'.pc = "done"
    ]_vars

C5_Witness ==
  /\ req.pc = "done" /\ req.route = "POST /api/properties"
  /\ req.status = 403 /\ req.message = "Subscription is not active"
  /\ req.nexts = 1 /\ ~req.ran
  /\ user.plan = "Enterprise" /\ ~user.subActive

(***************************************************************************)
(* C6.  Whatever the interleaving of register requests, no two User        *)
(* documents share an email; a request for an email a user already has     *)
(* gets 400 "User already exists with this email" and creates nothing; two *)
(* concurrent registrations of the same new email leave exactly one user.  *)
(***************************************************************************)
CountEmail(store, email) ==
  Cardinality({i \in DOMAIN store : store[i].email = email})

C6_UniqueEmail ==
  /\ \A i, j \in DOMAIN users : users[i].email = users[j].email => i = j
  /\ \A i \in RegIds :
       (regs[i].pc # "idle" /\ regs[i].existed) =>
          /\ regs[i].pc = "done" => /\ regs[i].status = 400
                                    /\ regs[i].message = "User already exists with this email"
          /\ regs[i].created = 0
  /\ \A i, j \in RegIds :
       (/\ i # j /\ regs[i].pc = "done" /\ regs[j].pc = "done"
        /\ CastEmail(regs[i].email) = CastEmail(regs[j].email)
        /\ MatchesEmail(regs[i].email)) =>
          CountEmail(users, CastEmail(regs[i].email)) = 1

\* both requests passed findOne before either created, one got the 201
C6_Witness ==
  \E i, j \in RegIds :
    /\ i # j /\ regs[i].pc = "done" /\ regs[j].pc = "done"
    /\ CastEmail(regs[i].email) = CastEmail(regs[j].email)
    /\ ~regs[i].existed /\ ~regs[j].existed
    /\ regs[i].status = 201 /\ regs[j].status = 500
    /\ CountEmail(users, CastEmail(regs[i].email)) = 1

(***************************************************************************)
(* C7.  After any sequence of API operations (create, update, status       *)
(* change, bulk update, soft delete) every stored Lead.status,             *)
(* Lead.priority, Property.leadInfo.status, Property.foreclosureStatus and *)
(* User.role is a member of the enum its schema declares.                  *)
(***************************************************************************)
C7_EnumMembership ==
  /\ \A i \in DOMAIN leads :
       leads[i].status \in LeadStatusEnum /\ leads[i].priority \in PriorityEnum
  /\ \A i \in DOMAIN props :
       /\ props[i].leadStatus \in PropertyLeadStatusEnum
       /\ props[i].foreclosureStatus \in ForeclosureStatusEnum
  /\ \A i \in DOMAIN users : users[i].role \in Roles

(***************************************************************************)
(* C8.  A controller handler sends exactly one response per request: when  *)
(* a store or service call inside it throws, the response is 500 with      *)
(* success:false and the exception does not leave the handler; 400, 403    *)
(* and 404 are sent only on their explicit branches.                       *)
(***************************************************************************)
C8_OneResponse ==
  /\ Len(call.sent) <= 1
  /\ ~call.escaped
  /\ call.at = "done" =>
       /\ Len(call.sent) = 1
       /\ call.threw => call.sent[1] = Sent(500, FALSE)
       /\ call.sent[1].status = 500 => call.threw
       /\ call.sent[1].status \in {400, 403, 404} =>
            /\ ~call.threw
            /\ TryBlock(call.name)[call.pc] =
                 Branch(call.sent[1].status, TryBlock(call.name)[call.pc].what)

\* Property.create went through and generateLead threw
C8_Witness ==
  /\ call.at = "done" /\ call.name = "createProperty" /\ call.pc = 2
  /\ call.threw /\ call.sent = <<Sent(500, FALSE)>>

(***************************************************************************)
(* C9.  Within one scheduled run the steps are awaited one at a time and   *)
(* follow each other in the order of the areas, inside an area county,     *)
(* public records, tax records, each scrape followed by its save, and the  *)
(* listing sites one after the other after the last area.                  *)
(***************************************************************************)
AreaOrder == <<"countyScrape", "countySave", "publicScrape", "publicSave",
               "taxScrape", "taxSave">>

OrderIndex(op) == CHOOSE i \in DOMAIN AreaOrder : AreaOrder[i] = op

LastArea == Len(TargetAreas)
LastSite == Len(ListingSites)

FollowsInOrder(c, n) ==
  \/ c = NoStep /\ n = Step("countyScrape", 1)
  \/ /\ c.op \in Range(AreaOrder) /\ n.op \in Range(AreaOrder)
     /\ n.at = c.at
     /\ OrderIndex(n.op) = OrderIndex(c.op) + 1
  \/ /\ c.op \in {"countyScrape", "publicScrape", "taxScrape", "taxSave"}
     /\ \/ c.at < LastArea /\ n = Step("countyScrape", c.at + 1)
        \/ c.at = LastArea /\ n = Step("siteScrape", 1)
  \/ /\ c.op = "siteScrape"
     /\ \/ c.at < LastSite /\ n = Step("siteScrape", c.at + 1)
        \/ c.at = LastSite /\ n = Step("listSave", 0)

C9_SequentialCollection ==
  [][\A r \in RunIds :
       /\ (run'[r].kind = "scheduled" /\ run'[r].cur # run[r].cur)
            => FollowsInOrder(run[r].cur, run'[r].cur)
       /\ run'[r].kind = "scheduled" => run'[r].pending = {run'[r].cur}
    ]_vars

C9_Witness ==
  \E r \in RunIds :
    /\ run[r].kind = "scheduled"
    /\ run[r].cur = Step("listSave", 0)
    /\ Len(run[r].items) >= 1

(***************************************************************************)
(* C10.  processAndSaveData is an upsert on (street, city, state): calls   *)
(* made one at a time keep at most one property per key, an item whose key *)
(* is stored updates that record and adds nothing to the returned list, an *)
(* item with a new key creates exactly one record.                         *)
(***************************************************************************)
C10_Upsert ==
  [][\A r \in RunIds :
       (run[r].pc \in SaveOps /\ run[r].sv = "write" /\ run'[r].sv = "find")
       => LET k == KeyOf(processPropertyData(Head(run[r].items), run[r].source))
          IN /\ UniqueKeys(props) => UniqueKeys(props')
             /\ CountKey(props, k) >= 1
                  => /\ Len(props') = Len(props)
                     /\ run'[r].out = run[r].out
             /\ CountKey(props, k) = 0
                  => /\ CountKey(props', k) = 1
                     /\ Len(props') = Len(props) + 1
    ]_vars

(***************************************************************************)
(* C11.  Over an unchanged collection, once a client has fetched pages     *)
(* 1..pages of a list endpoint with page >= 1 and limit >= 1, every        *)
(* response has at most limit records, total is the number of matching     *)
(* records, pages is ceil(total / limit), and the pages together hold      *)
(* every matching record exactly once.                                     *)
(***************************************************************************)
TimesServed(id) ==
  Cardinality({<<p, i>> \in (DOMAIN list.served) \X (1..MaxListDocs) :
                 /\ i \in DOMAIN list.served[p].data
                 /\ list.served[p].data[i] = id})

C11_Pagination ==
  LET matching == Matching(list.coll, ListFilter(list.handler))
  IN /\ \A p \in DOMAIN list.served :
          /\ Len(list.served[p].data) <= list.limit
          /\ list.served[p].total = Cardinality(matching)
          /\ list.served[p].pages * list.limit >= Cardinality(matching)
          /\ (list.served[p].pages - 1) * list.limit < Cardinality(matching)
                \/ list.served[p].pages = 0
     /\ (list.served # <<>> /\ Len(list.served) = list.served[1].pages)
          => \A id \in matching : TimesServed(id) = 1

(***************************************************************************)
(* C12.  No request removes a document from the Property, Lead, Analysis   *)
(* or User collection; a delete request that finds its document leaves it  *)
(* in place with isActive false and nothing else changed; and every        *)
(* document in a response of getProperties, getLeads or getAnalyses had    *)
(* isActive true when the handler queried the store.                       *)
(***************************************************************************)
C12_SoftDelete ==
  [][/\ Len(props') >= Len(props)
     /\ Len(leads') >= Len(leads)
     /\ Len(users') >= Len(users)
     /\ Len(analyses') >= Len(analyses)
     /\ \A id \in ParamIds :
          /\ (deleteProperty(id) /\ id \in DOMAIN props)
               => props' = [props EXCEPT ![id].isActive = FALSE]
          /\ (deleteLead(id) /\ id \in DOMAIN leads)
               => leads' = [leads EXCEPT ![id].isActive = FALSE]
          /\ \A reqUser \in Requesters :
               (deleteUser(id, reqUser) /\ res' = 200)
                 => users' = [users EXCEPT ![id].isActive = FALSE]
     /\ \A r \in AReqIds :
          /\ deleteAnalysis(r)
               => analyses' = [analyses EXCEPT ![areqs[r].id].isActive = FALSE]
          /\ (areqs[r].pc = "idle" /\ areqs'[r].handler = "getAnalyses")
               => \A id \in areqs'[r].data : analyses[id].isActive
          /\ getAnalysesResponds(r) => areqs'[r].data = areqs[r].data
     /\ \A handler \in {"getProperties", "getLeads"} :
          getList(handler)
            => \A id \in listing'.data : CollectionOf(handler)[id].isActive
    ]_vars

C12_Witness ==
  /\ props # <<>> /\ ~props[1].isActive
  /\ listing = [handler |-> "getProperties", data |-> {}]
  /\ leads # <<>> /\ ~leads[1].isActive
  /\ ~users[1].isActive
  /\ analyses # <<>> /\ ~analyses[1].isActive
  /\ areqs[1].handler = "getAnalyses" /\ areqs[1].pc = "done"
  /\ areqs[1].status = 200 /\ areqs[1].data = {}

(***************************************************************************)
(* C13.  No request of a requester whose role is not Admin, to updateUser, *)
(* updateProfile, updateSubscription or bulkUpdateUsers and with any body, *)
(* changes the role or the subscription plan of a stored user.             *)
(***************************************************************************)
SameRolesAndPlans ==
  \A u \in DOMAIN users :
    users'[u].role = users[u].role /\ users'[u].plan = users[u].plan

C13_AdminOnlyRoleAndSubscription ==
  [][\A i \in ActiveUsers :
       users[i].role # "Admin" =>
         /\ \A id \in UserParamIds : \A body \in UserBodies :
              updateUser(id, RequesterOf(i, id), body) => SameRolesAndPlans
         /\ \A body \in UserBodies :
              updateProfile(i, body) => SameRolesAndPlans
         /\ \A id \in UserParamIds : \A plan \in {"Basic", "Bogus"} :
              updateSubscription(id, RequesterOf(i, id), plan)
                => SameRolesAndPlans
         /\ \A userIds \in SUBSET (1..Len(TwoUsers)) :
              \A value \in BodyValues("role") :
                bulkUpdateUsers(userIds, RequesterOf(i, 0), value)
                  => SameRolesAndPlans
    ]_vars

C15_OwnAnalysesOnly ==
  [][/\ \A r \in AReqIds :
          (areqs[r].pc = "idle" /\ areqs'[r].pc # "idle"
             /\ areqs'[r].reqUser.role # "Admin") =>
            /\ areqs'[r].handler \in {"getAnalyses", "getAnalysisAnalytics"}
                 => \A id \in areqs'[r].data :
                      analyses[id].user = areqs'[r].reqUser.id
            /\ (/\ areqs'[r].handler \in
                     {"getAnalysis"} \cup WriteHandlers
                /\ areqs'[r].id \in DOMAIN analyses
                /\ analyses[areqs'[r].id].user # areqs'[r].reqUser.id)
                 => /\ areqs'[r].pc = "done"
                    /\ areqs'[r].status = 403
                    /\ areqs'[r].data = {}
                    /\ analyses' = analyses
     /\ \A r \in AReqIds :
          areqs[r].pc = "count" => areqs'[r].data = areqs[r].data
     /\ \A id \in DOMAIN analyses :
          analyses'[id] # analyses[id] =>
            \E r \in AReqIds :
              /\ areqs[r].pc = "write" /\ areqs[r].id = id
              /\ areqs'[r].pc = "done"
    ]_vars

C15_Witness ==
  \E r \in AReqIds :
    /\ areqs[r].handler = "updateAnalysis"
    /\ areqs[r].pc = "done" /\ areqs[r].status = 403
    /\ areqs[r].reqUser = ReqUser("Investor", 2)
    /\ analyses[areqs[r].id].user = 1
    /\ analyses[areqs[r].id].value = "v0"

(***************************************************************************)
(* C16.  A request that issues an API key for an account finds that        *)
(* account's apiAccess.isEnabled true and leaves it as it was; on an       *)
(* account whose API access is not enabled AuthController.generateApiKey   *)
(* answers 403 and stores nothing, and no account gets a key while its     *)
(* API access is not enabled.                                              *)
(***************************************************************************)
C16_KeyOnlyWhenEnabled ==
  [][/\ \A u \in DOMAIN users :
          (users'[u].hasApiKey /\ ~users[u].hasApiKey) => users[u].apiEnabled
     /\ \A i \in ActiveUsers :
          /\ authGenerateApiKey(i) =>
               IF users[i].apiEnabled
                 THEN res' = 200 /\ users'[i].apiEnabled
                 ELSE res' = 403 /\ users' = users
          /\ \A id \in UserParamIds :
               (userGenerateApiKey(id, RequesterOf(i, id)) /\ res' = 200) =>
                 /\ users[id].apiEnabled
                 /\ users'[id].apiEnabled = users[id].apiEnabled
    ]_vars

(***************************************************************************)
(* C17.  Every stored lead has score.total equal to the sum of its four    *)
(* factors, each factor within 0..25 and the total within 0..100, after    *)
(* any sequence of lead operations.                                        *)
(***************************************************************************)
C17_ScoreTotal ==
  \A id \in DOMAIN leads :
    /\ leads[id].total = SumOfFactors(leads[id])
    /\ \A path \in FactorPaths : leads[id][path] \in 0..MaxFactor
    /\ leads[id].total \in 0..MaxTotal

(***************************************************************************)
(* C18.  On SIGINT or SIGTERM the process shuts down gracefully: when it   *)
(* exits, every scheduled cron job has been stopped and the browser of the *)
(* scraper has been closed.                                                *)
(***************************************************************************)
C18_GracefulShutdown ==
  proc = "exited" => cronJobs = {} /\ browser # "open"

(***************************************************************************)
(* C19.  The job registry holds at most one live cron job per name:        *)
(* scheduleJob on a name already present destroys the old job before it    *)
(* registers the new one; after startScheduledJobs, called any number of   *)
(* times, exactly its four jobs are live; after stopScheduledJobs or       *)
(* shutdown every registered job has been destroyed and the registry is    *)
(* empty.                                                                  *)
(***************************************************************************)
LiveNamed(name) == {job \in cronJobs : job.name = name}

C19_JobRegistry ==
  [][/\ \A name \in JobNames : Cardinality(LiveNamed(name))' <= 1
     /\ \A name \in JobNames :
          (scheduleOne(name) /\ name \in DOMAIN jobs) =>
            /\ jobs[name] \notin cronJobs'
            /\ jobs'[name] \in cronJobs'
     /\ startScheduledJobs =>
          /\ DOMAIN jobs' = JobNames
          /\ cronJobs' = {jobs'[name] : name \in JobNames}
          /\ \A name \in JobNames : Cardinality(LiveNamed(name))' = 1
     /\ (stopScheduledJobs \/ shutdown) =>
          /\ jobs' = NoJobs
          /\ cronJobs' = {}
    ]_vars

\* startScheduledJobs has run a second time and its four jobs are live
C19_Witness ==
  /\ created = 2 * Len(JobOrder)
  /\ DOMAIN jobs = JobNames
  /\ Cardinality(cronJobs) = Len(JobOrder)

(***************************************************************************)
(* C20.  login returns a token only if a user with the given email exists, *)
(* is active and the password matches; in every other case the response is *)
(* 401 and the loginCount and lastLogin of the user are unchanged; each    *)
(* successful login increases loginCount by exactly 1.                     *)
(***************************************************************************)
Answered(r) == login.reqs[r].pc # "done" /\ login.reqs'[r].pc = "done"

C20_Login ==
  [][\A r \in LoginIds : Answered(r) =>
       IF login.reqs'[r].token
         THEN /\ \E i \in DOMAIN users :
                   /\ users[i].email = login.reqs[r].email
                   /\ users[i].isActive
                   /\ login.reqs[r].hasPassword
                   /\ users[i].password = Hash(login.reqs[r].password)
                   /\ users'[i].loginCount = users[i].loginCount + 1
         ELSE /\ login.reqs'[r].status = 401
              /\ users' = users
    ]_vars

(***************************************************************************)
(* C21.  A password-reset token is single-use and time-limited:            *)
(* resetPassword changes a password only when the supplied token equals    *)
(* the token the latest forgotPassword stored for that user and fewer than *)
(* 10 minutes have passed since it was issued; a successful reset clears   *)
(* token and expiry, and a replay of the token gets 400 and changes        *)
(* nothing.                                                                *)
(***************************************************************************)
ResetAnswered(r) == resets.reqs[r].pc # "done" /\ resets.reqs'[r].pc = "done"

C21_ResetToken ==
  [][\A r \in ResetIds :
       (ResetAnswered(r) /\ resets.reqs[r].pc # "forgotSave"
        /\ resets.reqs'[r].status # 404) =>
         IF resets.reqs'[r].status = 200
           THEN LET stored == users[resets.reqs[r].user]
                IN /\ resets.reqs[r].op = "$eq"
                   /\ stored.passwordResetToken = resets.reqs[r].token
                   /\ resets.reqs[r].at < stored.passwordResetExpires
                   /\ users'[resets.reqs[r].user].passwordResetToken = 0
                   /\ users'[resets.reqs[r].user].passwordResetExpires = 0
           ELSE users' = users
    ]_vars

(***************************************************************************)
(* C22.  In runForeclosureDataCollection an exception raised while         *)
(* collecting one area is caught for that area only: every remaining area  *)
(* and the final listings scrape are still attempted, a failing listing    *)
(* site does not keep the other sites from being scraped, and no failed    *)
(* scrape is attempted a second time within the run.                       *)
(***************************************************************************)
\* the place of a step in the run
StepRank(step) ==
  CASE step.op \in Range(AreaOrder) ->
         (step.at - 1) * Len(AreaOrder) + OrderIndex(step.op)
    [] step.op = "siteScrape" -> LastArea * Len(AreaOrder) + step.at
    [] step.op = "listSave" -> LastArea * Len(AreaOrder) + LastSite + 1
    [] OTHER -> 0

\* the step that follows a scrape that threw
AfterFailed(step) ==
  IF step.op = "siteScrape"
    THEN IF step.at < LastSite THEN Step("siteScrape", step.at + 1)
         ELSE Step("listSave", 0)
    ELSE IF step.at < LastArea THEN Step("countyScrape", step.at + 1)
         ELSE Step("siteScrape", 1)

C22_FailureIsolated ==
  [][\A r \in RunIds : run[r].kind = "scheduled" =>
       /\ (run'[r].kind = "scheduled" /\ run'[r].cur # run[r].cur) =>
            StepRank(run'[r].cur) > StepRank(run[r].cur)
       /\ (\E pageOpened \in BOOLEAN : ScrapeFails(r, pageOpened)) =>
            /\ run'[r].kind = "scheduled"
            /\ run'[r].cur = AfterFailed(run[r].cur)
       /\ run'[r].kind = "idle" => run[r].pc = "listSave"
    ]_vars

\* the county scrape of every area threw with its page open and the run
\* has come to its listings save
C22_Witness ==
  \E r \in RunIds :
    /\ run[r].kind = "scheduled" /\ run[r].pc = "listSave"
    /\ scraper.fires = 1
    /\ scraper.pages = LastArea

(***************************************************************************)
(* C23.  Every started runForeclosureDataCollection eventually sets        *)
(* isRunning back to false, also when scrape or save steps throw, provided *)
(* each scraper call returns or throws: the flag is never true after the   *)
(* run has ended, and a scheduled run is only skipped while another one is *)
(* in progress.                                                            *)
(***************************************************************************)
ScheduledRunning == \E r \in RunIds : run[r].kind = "scheduled"

C23_FlagCleared ==
  /\ [](isRunning["cron"] => ScheduledRunning)
  /\ [][\A r \in RunIds :
          (run[r].kind # "skipped" /\ run'[r].kind = "skipped") =>
            ScheduledRunning]_vars
  /\ (isRunning["cron"] ~> ~isRunning["cron"])

\* a run in which scrapes threw has ended and the flag is false again
C23_Witness ==
  /\ ~isRunning["cron"]
  /\ \A r \in RunIds : run[r].kind = "idle"
  /\ scraper.fires = 1
  /\ scraper.pages >= 1

(***************************************************************************)
(* C29.  Every browser page a scrape operation opened has been closed by   *)
(* the time the operation returns or throws: between the scrape calls of   *)
(* the runs, failed ones included, no page is open.                        *)
(***************************************************************************)
C29_PagesClosed == scraper.pages = 0

(***************************************************************************)
(* C24.  isActive of a property or of a lead changes, in either            *)
(* direction, only in a request made by a user whose role is Admin or      *)
(* Manager: in every step that changes isActive of a stored property or    *)
(* lead, req.user has one of these two roles.                              *)
(***************************************************************************)
ActiveChanged(coll, after) ==
  \E i \in DOMAIN coll : i \in DOMAIN after /\ after[i].isActive # coll[i].isActive

C24_ActiveByAdminOrManager ==
  [][ActiveChanged(props, props') \/ ActiveChanged(leads, leads')
       => user.role \in {"Admin", "Manager"}]_vars

(***************************************************************************)
(* C25.  The store starts with an active Admin account, and after any      *)
(* sequence of deleteUser, updateUser, bulkUpdateUsers and                 *)
(* updateSubscription requests by signed-in users there is still an        *)
(* active account whose role is Admin.                                     *)
(***************************************************************************)
ActiveAdmins ==
  {i \in DOMAIN users : users[i].role = "Admin" /\ users[i].isActive}

C25_ActiveAdminRemains == ActiveAdmins # {}

(***************************************************************************)
(* C26.  The owner of an analysis never changes: no step changes the       *)
(* stored user field of an analysis that exists before the step.           *)
(***************************************************************************)
C26_OwnerUnchanged ==
  [][\A i \in DOMAIN analyses : analyses'[i].user = analyses[i].user]_vars

(***************************************************************************)
(* C27.  A create request that does not answer 201 leaves no record        *)
(* behind: in every step in which the Property or the Lead collection      *)
(* gains a document, the response of that step is 201.                     *)
(***************************************************************************)
C27_NoRecordOnError ==
  [][Len(props') > Len(props) \/ Len(leads') > Len(leads) => res' = 201]_vars

(***************************************************************************)
(* C28.  The update processAndSaveData makes to an existing property       *)
(* leaves the fields the scrape does not supply as they were: in every     *)
(* write step of a save on an item whose property was found, county, lead  *)
(* status, lead priority, property type and isActive of that property are  *)
(* unchanged.                                                              *)
(***************************************************************************)
KeptPaths == {"county", "leadStatus", "leadPriority", "propertyType", "isActive"}

C28_UpdateFrame ==
  [][\A r \in RunIds :
       (/\ run[r].pc \in SaveOps
        /\ run[r].sv = "write"
        /\ run'[r].sv = "find"
        /\ run[r].existing # 0)
       => \A path \in KeptPaths :
            props'[run[r].existing][path] = props[run[r].existing][path]
    ]_vars

=============================================================================
